---------------------------- MODULE Spec2Model ----------------------------
(***************************************************************************)
(* Source-chain write/validate pipeline of holochain:                      *)
(*   - SourceChainBuf      (source_chain_buffer.rs)   : SpecChain          *)
(*   - ChainRootGatekeeper (src/lib.rs, mutex_based.rs): SpecGate          *)
(*   - call_zome_workflow  (call_zome_workflow.rs)    : SpecZome           *)
(*   - ChainRootGatekeeper, gatekeep_loop (src/lib.rs) : SpecActor         *)
(*   - concurrent call_zome_workflow calls            : SpecConc           *)
(*   - ConductorHandle     (conductor/handle.rs)      : SpecHandle         *)
(*   - authored / integrated stores (authored_test.rs): SpecAuthored       *)
(*   - pending DHT ops     (source_chain_buffer.rs)   : SpecDht            *)
(*   - two handles on one database (mutex_based.rs)   : SpecTwoGate        *)
(*   - CallZomeWorkspace   (call_zome_workflow.rs)    : SpecWorkspace      *)
(*   - RwLock<Conductor>   (conductor/handle.rs)      : SpecRw             *)
(*   - SourceChainBackwardIterator                    : SpecIter           *)
(* Option<T> is modelled as a sequence of length 0 (None) or 1 (Some).     *)
(* Timestamps are left out of headers: no modelled operation reads them.   *)
(***************************************************************************)
EXTENDS Integers, Sequences, FiniteSets, TLC

\* ------------------------------------------------------------------ bounds
MaxLen == 5
NumCallers == 2
MaxBundle == 2
MaxChain == 5
MaxNew == 3
MaxZomeChain == 7
MaxRequests == 3
MaxHandles == 2
MaxDnas == 2
MaxEntries == 2
MaxDhtLen == 3
MaxIterLen == 3

\* ------------------------------------------------------------ basic values
None == <<>>
Some(x) == <<x>>

Agents == {"alice", "bob"}
\* the keys the keystore holds: signing for any other author fails
KeystoreAgents == {"alice"}
DnaHashes == {"dna_a"}

\* HeaderHashed::from_content_sync: a content address, injective in the header
HashOf(header) == [hash_of |-> header]

\* EntryHashed::from_content_sync
EntryHashOf(entry) == [entry_hash_of |-> entry]

AgentEntry(agent_pubkey) == [entry_type |-> "Agent", content |-> agent_pubkey]
AppEntry(content) == [entry_type |-> "App", content |-> content]

\* Header::Dna has no header_seq and no prev_header field: the accessors
\* give 0 and None
DnaHeader(author, dna_hash) ==
    [kind |-> "Dna", author |-> author, header_seq |-> 0,
     prev_header |-> None, payload |-> <<dna_hash>>]

AgentValidationPkgHeader(author, header_seq, prev_header, membrane_proof) ==
    [kind |-> "AgentValidationPkg", author |-> author, header_seq |-> header_seq,
     prev_header |-> prev_header, payload |-> membrane_proof]

CreateHeader(author, header_seq, prev_header, entry_type, entry_hash) ==
    [kind |-> "Create", author |-> author, header_seq |-> header_seq,
     prev_header |-> prev_header, payload |-> <<entry_type, entry_hash>>]

\* a header of any other kind (CreateLink, DeleteLink, Update, ...)
PlainHeader(kind, author, header_seq, prev_header, tag) ==
    [kind |-> kind, author |-> author, header_seq |-> header_seq,
     prev_header |-> prev_header, payload |-> <<tag>>]

\* ----------------------------------------------------------- SourceChainBuf
\* sign(author, bytes): fails with KeyUnavailable when the key is not held
CanSign(author) == author \in KeystoreAgents
Sign(author, header) == [signer |-> author, signed |-> HashOf(header)]

EmptyBuf == [elements |-> {}, sequence |-> <<>>]

\* ElementBuf::put
elements_put(elements, signed_header, maybe_entry) ==
    elements \cup {[signed_header |-> signed_header, entry |-> maybe_entry]}

\* ChainSequenceBuf::put_header: the next contiguous index
sequence_put_header(sequence, header_address) == Append(sequence, header_address)

\* faulty variant: the header is indexed, the element is not stored
put_raw_unstored(buf, header, maybe_entry) ==
    IF ~CanSign(header.author)
    THEN [ok |-> FALSE, buf |-> buf, address |-> None]
    ELSE [ok |-> TRUE,
          buf |-> [elements |-> buf.elements,
                   sequence |-> sequence_put_header(buf.sequence, HashOf(header))],
          address |-> Some(HashOf(header))]

\* faulty variant: the header is indexed before it is signed
put_raw_indexed_before_sign(buf, header, maybe_entry) ==
    LET header_address == HashOf(header)
        signed_header == [header |-> header, signature |-> Sign(header.author, header)]
    IN  IF ~CanSign(header.author)
        THEN [ok |-> FALSE,
              buf |-> [elements |-> buf.elements,
                       sequence |-> sequence_put_header(buf.sequence, header_address)],
              address |-> None]
        ELSE [ok |-> TRUE,
              buf |-> [elements |-> elements_put(buf.elements, signed_header, maybe_entry),
                       sequence |-> sequence_put_header(buf.sequence, header_address)],
              address |-> Some(header_address)]

\* SourceChainBuf::put_raw: hash, sign, index, store
put_raw(buf, header, maybe_entry) ==
    LET header_address == HashOf(header)
        signed_header == [header |-> header, signature |-> Sign(header.author, header)]
    IN  IF ~CanSign(header.author)
        THEN [ok |-> FALSE, buf |-> buf, address |-> None]
        ELSE [ok |-> TRUE,
              buf |-> [elements |-> elements_put(buf.elements, signed_header, maybe_entry),
                       sequence |-> sequence_put_header(buf.sequence, header_address)],
              address |-> Some(header_address)]

\* faulty variant: the agent header is linked to the Dna header instead of the
\* agent-validation header
genesis_badlink(buf, dna_hash, agent_pubkey, membrane_proof) ==
    LET r1 == put_raw(buf, DnaHeader(agent_pubkey, dna_hash), None)
    IN  IF ~r1.ok THEN [ok |-> FALSE, buf |-> r1.buf]
        ELSE
        LET r2 == put_raw(r1.buf,
                     AgentValidationPkgHeader(agent_pubkey, 1, r1.address, membrane_proof),
                     None)
        IN  IF ~r2.ok THEN [ok |-> FALSE, buf |-> r2.buf]
            ELSE
            LET r3 == put_raw(r2.buf,
                         CreateHeader(agent_pubkey, 2, r1.address, "AgentPubKey",
                                      EntryHashOf(AgentEntry(agent_pubkey))),
                         Some(AgentEntry(agent_pubkey)))
            IN  [ok |-> r3.ok, buf |-> r3.buf]

\* SourceChainBuf::genesis: three put_raw calls, each error returned at once
genesis(buf, dna_hash, agent_pubkey, membrane_proof) ==
    LET r1 == put_raw(buf, DnaHeader(agent_pubkey, dna_hash), None)
    IN  IF ~r1.ok THEN [ok |-> FALSE, buf |-> r1.buf]
        ELSE
        LET r2 == put_raw(r1.buf,
                     AgentValidationPkgHeader(agent_pubkey, 1, r1.address, membrane_proof),
                     None)
        IN  IF ~r2.ok THEN [ok |-> FALSE, buf |-> r2.buf]
            ELSE
            LET r3 == put_raw(r2.buf,
                         CreateHeader(agent_pubkey, 2, r2.address, "AgentPubKey",
                                      EntryHashOf(AgentEntry(agent_pubkey))),
                         Some(AgentEntry(agent_pubkey)))
            IN  [ok |-> r3.ok, buf |-> r3.buf]

\* SourceChainBuf::len
len(buf) == Len(buf.sequence)

\* faulty variant: the oldest indexed address is given as the head
chain_head_oldest(buf) == IF buf.sequence = <<>> THEN None ELSE Some(buf.sequence[1])

\* SourceChainBuf::chain_head
chain_head(buf) == IF buf.sequence = <<>> THEN None ELSE Some(buf.sequence[Len(buf.sequence)])

\* faulty variant: a strict comparison
has_genesis_strict(buf) == Len(buf.sequence) > 3

\* SourceChainBuf::has_genesis
has_genesis(buf) == Len(buf.sequence) >= 3

\* faulty variant: the comparison of has_genesis
has_initialized_at_genesis(buf) == Len(buf.sequence) >= 3

\* SourceChainBuf::has_initialized: `self.len() > 3`
has_initialized(buf) == Len(buf.sequence) > 3

\* SourceChainBuf::get_element
get_element(buf, k) ==
    LET found == {e \in buf.elements : HashOf(e.signed_header.header) = k}
    IN  IF found = {} THEN None ELSE Some(CHOOSE e \in found : TRUE)

\* faulty variant: i counts from 1
get_at_index_one_based(buf, i) ==
    IF i \in 1..Len(buf.sequence) THEN get_element(buf, buf.sequence[i]) ELSE None

\* SourceChainBuf::get_at_index (i counts from 0)
get_at_index(buf, i) ==
    IF i + 1 \in 1..Len(buf.sequence) THEN get_element(buf, buf.sequence[i + 1]) ELSE None

\* SourceChainBuf::agent_pubkey: the entry of the element at index 2
SourceChainBuf_agent_pubkey(buf) ==
    LET element == get_at_index(buf, 2)
    IN  IF element = None
        THEN [tag |-> "Ok", value |-> None]
        ELSE IF element[1].entry = None
        THEN [tag |-> "Err", value |-> <<"InvalidStructure", "GenesisDataMissing">>]
        ELSE IF element[1].entry[1].entry_type = "Agent"
        THEN [tag |-> "Ok", value |-> Some(element[1].entry[1].content)]
        ELSE [tag |-> "Err", value |-> <<"InvalidStructure", "MalformedGenesisData">>]

\* SourceChainBuf::get_header
get_header(buf, k) ==
    LET found == {e \in buf.elements : HashOf(e.signed_header.header) = k}
    IN  IF found = {} THEN None ELSE Some((CHOOSE e \in found : TRUE).signed_header)

\* SourceChainBuf::get_entry
get_entry(buf, k) ==
    LET found == {e \in buf.elements : e.entry # None /\ EntryHashOf(e.entry[1]) = k}
    IN  IF found = {} THEN None ELSE Some((CHOOSE e \in found : TRUE).entry[1])

\* SourceChainBackwardIterator::next, called until it gives None: look up the
\* header at `current`, move `current` to its prev_header
RECURSIVE iter_next(_, _)
iter_next(store, current) ==
    IF current = None THEN <<>>
    ELSE LET header == get_header(store, current[1])
         IN  IF header = None THEN <<>>
             ELSE <<header[1]>> \o iter_next(store, header[1].header.prev_header)

\* faulty variant: the iterator ends after the chain head
iter_back_head_only(store) ==
    IF chain_head(store) = None THEN <<>>
    ELSE LET header == get_header(store, chain_head(store)[1])
         IN  IF header = None THEN <<>> ELSE <<header[1]>>

\* SourceChainBuf::iter_back: all the items of SourceChainBackwardIterator::new(self)
iter_back(store) == iter_next(store, chain_head(store))

\* faulty variant: the elements are written, the sequence index is not
flush_to_txn_ref_elements_only(env, workspace) ==
    [elements |-> workspace.elements, sequence |-> env.sequence]

\* faulty variant: the sequence index is written, the elements are not
flush_to_txn_ref_sequence_only(env, workspace) ==
    [elements |-> env.elements, sequence |-> workspace.sequence]

\* SourceChainBuf::flush_to_txn_ref: the elements, then the sequence index
flush_to_txn_ref(env, workspace) ==
    [elements |-> workspace.elements, sequence |-> workspace.sequence]

VARIABLES
    sc,          \* the SourceChainBuf: elements and sequence index, scratch included
    sc_db,       \* what has been flushed to the environment
    sc_hist      \* history: the last operation and whether every append linked onto the head

chainVars == <<sc, sc_db, sc_hist>>

VARIABLES
    db,             \* durable source chain behind the LmdbUnique write handle
    inner,          \* holder of Arc<Mutex<ChainRootGatekeeper>> (0: free)
    db_write,       \* holder of Arc<Mutex<LmdbUnique>> (0: free)
    gpc,            \* each caller's position in try_append_chain / gatekeep
    next_write,     \* each caller's bundle (rewritten by rebase_headers)
    as_at,          \* each caller's valid_at
    rebasable,
    chain_root_hash,\* gatekeep's local
    gresult,        \* "none" | "Ok" | "HeadMoved" | "panic"
    ghist           \* history of each caller's current call

gateVars == <<db, inner, db_write, gpc, next_write, as_at, rebasable,
              chain_root_hash, gresult, ghist>>

VARIABLES
    zenv,                 \* the environment: what workspaces are built from and flushed to
    ws,                   \* CallZomeWorkspace.source_chain of the running call
    wf_pc,                \* position of call_zome_workflow
    chain_head_start_len,
    zresult,              \* what ribosome.call_zome_function returned: "none" | "Ok" | "Err"
    sys_i,                \* the index `i` of the system-validation loop
    to_app_validate,      \* the elements collected for application validation
    app_k,                \* position of the application-validation loop (from 1)
    wresult,              \* what call_zome_workflow returned: "none" | "Ok" | an error
    zhist                 \* history of the running call

zomeVars == <<zenv, ws, wf_pc, chain_head_start_len, zresult, sys_i, to_app_validate,
              app_k, wresult, zhist>>

VARIABLES
    writes,       \* the queue behind ChainRootHandle.writes, oldest request first
    reply,        \* what each caller's own reply channel holds: "none" | "waiting" | a reply
    loop_pc,      \* position of start_loop: "receive" | "send"
    loop_req,     \* start_loop's (next_write, as_at, rebasable, result_sender)
    loop_result,  \* start_loop's `result`
    actor_db,     \* durable source chain behind the task's write handle
    arrived,      \* history: the number of requests enqueued so far
    actor_log,    \* history: the replies sent, in the order they were sent
    mutex_db,     \* the durable chain of a mutex gatekeeper given the same requests
    mutex_log     \* history: its results, in the same order

actorVars == <<writes, reply, loop_pc, loop_req, loop_result, actor_db, arrived,
               actor_log, mutex_db, mutex_log>>

VARIABLES
    cenv,         \* durable source chain shared by the concurrent zome calls
    cz_pc,        \* each call's position in call_zome_workflow
    cz_root,      \* the chain head each call's workspace was built on
    cz_bundle,    \* the headers each call appended to its own workspace
    cz_result     \* what each call returned: "none" | "Ok" | an error

concVars == <<cenv, cz_pc, cz_root, cz_bundle, cz_result>>

VARIABLES
    conductor,    \* the Conductor behind the RwLock: shutting_down, dna_store
    handles,      \* how many clones of the ConductorHandle exist
    shutdown_by,  \* history: the clone through which shutdown() completed, if any
    h_log         \* history: the last call made through a handle and its result

handleVars == <<conductor, handles, shutdown_by, h_log>>

VARIABLES
    authored,     \* each agent's authored element store, by entry
    integrated,   \* each agent's integrated element store (the vault), by entry
    published,    \* the entries whose DHT ops have been produced and published
    committed_by  \* history: the entries each agent committed itself

authVars == <<authored, integrated, published, committed_by>>

VARIABLES
    dht_sc,            \* a SourceChainBuf, scratch included
    dht_db,            \* what of it has been committed
    complete_scratch,  \* sequence numbers marked complete in the scratch
    complete_db,       \* sequence numbers whose mark has been committed
    dht_hist           \* history: the last get_incomplete_dht_ops call, the marks committed

dhtVars == <<dht_sc, dht_db, complete_scratch, complete_db, dht_hist>>

VARIABLES
    ws_env,       \* the six databases a CallZomeWorkspace is opened on, by name
    ws_last       \* history: "none" | how the last call_zome_workflow ended | "integrate"

wsVars == <<ws_env, ws_last>>

VARIABLES
    rw_readers,   \* the tasks holding a read guard of RwLock<Conductor>
    rw_writer,    \* the task holding its write guard (0: none)
    rw_op,        \* the ConductorHandle operation each task is in
    rw_pc,        \* each task's position in it
    rw_log        \* history: the operation that returned last

rwVars == <<rw_readers, rw_writer, rw_op, rw_pc, rw_log>>

VARIABLES
    it_store,     \* the SourceChainBuf a SourceChainBackwardIterator borrows
    it_iter       \* the iterator: `current`, and the history of its next() calls

itVars == <<it_store, it_iter>>

sideVars == <<handleVars, authVars, dhtVars, wsVars, rwVars, itVars>>

vars == <<chainVars, gateVars, zomeVars, actorVars, concVars, sideVars>>

\* ------------------------------------------------------------- SpecChain
ChainInit ==
    /\ sc = EmptyBuf
    /\ sc_db = EmptyBuf
    /\ sc_hist = [op |-> "new", ok |-> TRUE, len_before |-> 0, linked |-> TRUE, puts |-> 0,
                  address |-> None, header |-> None, entry |-> None]

\* the header links onto the current head with the next sequence number
LinksOntoHead(buf, header) ==
    /\ header.prev_header = chain_head(buf)
    /\ header.header_seq = len(buf)

\* headers a caller may hand to put_raw: well formed, or with a wrong link or
\* a wrong sequence number
RawHeaders(buf) ==
    {DnaHeader(a, d) : a \in Agents, d \in DnaHashes}
    \cup {CreateHeader(a, s, p, "App", EntryHashOf(AppEntry("post"))) :
            a \in Agents, s \in {len(buf), len(buf) + 1}, p \in {chain_head(buf), None}}

PutRaw ==
    /\ len(sc) < MaxLen
    /\ \E header \in RawHeaders(sc) :
        LET maybe_entry == IF header.kind = "Create" THEN Some(AppEntry("post")) ELSE None
            r == put_raw(sc, header, maybe_entry)
        IN  /\ sc' = r.buf
            /\ sc_hist' = [op |-> "put_raw", ok |-> r.ok, len_before |-> len(sc),
                           linked |-> sc_hist.linked /\ (r.ok => LinksOntoHead(sc, header)),
                           puts |-> sc_hist.puts + (IF r.ok THEN 1 ELSE 0),
                           address |-> r.address, header |-> Some(header),
                           entry |-> maybe_entry]
    /\ UNCHANGED <<sc_db, gateVars, zomeVars, actorVars, concVars, sideVars>>

Genesis ==
    /\ len(sc) + 3 <= MaxLen
    /\ \E dna_hash \in DnaHashes, agent_pubkey \in Agents, membrane_proof \in {None, Some("proof")} :
        LET r == genesis(sc, dna_hash, agent_pubkey, membrane_proof)
        IN  /\ sc' = r.buf
            /\ sc_hist' = [op |-> "genesis", ok |-> r.ok, len_before |-> len(sc),
                           linked |-> sc_hist.linked /\ (r.ok => len(sc) = 0),
                           puts |-> sc_hist.puts + (len(r.buf) - len(sc)),
                           address |-> None, header |-> None, entry |-> None]
    /\ UNCHANGED <<sc_db, gateVars, zomeVars, actorVars, concVars, sideVars>>

\* BufferedStore::flush_to_txn_ref inside one committed write transaction
Flush ==
    /\ sc_db # sc
    /\ sc_db' = flush_to_txn_ref(sc_db, sc)
    /\ sc_hist' = [sc_hist EXCEPT !.op = "flush", !.ok = TRUE, !.len_before = len(sc)]
    /\ UNCHANGED <<sc, gateVars, zomeVars, actorVars, concVars, sideVars>>



\* ------------------------------------------------------ ChainRootGatekeeper
Callers == 1..NumCallers

\* the headers the durable chain holds, oldest first, after genesis
GenesisChain ==
    LET g == genesis(EmptyBuf, "dna_a", "alice", None)
    IN  [i \in 1..Len(g.buf.sequence) |-> g.buf.sequence[i].hash_of]

\* get_source_chain_root_hash: the address of the most recently appended header
get_source_chain_root_hash(lmdb) == HashOf(lmdb[Len(lmdb)])

\* the sequence number of the header an address names
header_seq_at(address) == address.hash_of.header_seq

\* rewrite the links of transaction[i..]: a header linking to old_prev is
\* re-pointed to new_prev and renumbered; its successors follow its new address
RECURSIVE relink(_, _, _, _)
relink(transaction, i, old_prev, new_prev) ==
    IF i > Len(transaction) THEN <<>>
    ELSE LET h == transaction[i]
             h2 == IF h.prev_header = Some(old_prev)
                   THEN [h EXCEPT !.prev_header = Some(new_prev),
                                  !.header_seq = header_seq_at(new_prev) + 1]
                   ELSE h
         IN  <<h2>> \o relink(transaction, i + 1, HashOf(h), HashOf(h2))

\* rebase_headers(transaction, valid_at, now): the headers chained onto
\* valid_at are chained onto now instead
rebase_headers(transaction, valid_at, now) == relink(transaction, 1, valid_at, now)

\* LmdbUnique::apply: the only step that writes durable state
apply(lmdb, transaction) == lmdb \o transaction

\* a bundle of n new headers a caller computes against the root it observed
RECURSIVE prepare_bundle(_, _, _)
prepare_bundle(root, n, tag) ==
    IF n = 0 THEN <<>>
    ELSE LET h == PlainHeader("Create", "alice", header_seq_at(root) + 1, Some(root), tag)
         IN  <<h>> \o prepare_bundle(HashOf(h), n - 1, tag)

NoHist == [rebased |-> 0, applied |-> 0, write_handle |-> FALSE,
           submitted |-> <<>>, db_at_read |-> <<>>, db_at_return |-> <<>>,
           assert_ok |-> TRUE]

GateInit ==
    /\ db = GenesisChain
    /\ inner = 0
    /\ db_write = 0
    /\ gpc = [c \in Callers |-> "idle"]
    /\ next_write = [c \in Callers |-> <<>>]
    /\ as_at = [c \in Callers |-> get_source_chain_root_hash(GenesisChain)]
    /\ rebasable = [c \in Callers |-> FALSE]
    /\ chain_root_hash = [c \in Callers |-> get_source_chain_root_hash(GenesisChain)]
    /\ gresult = [c \in Callers |-> "none"]
    /\ ghist = [c \in Callers |-> NoHist]

\* headers of the bundles prepared or in flight, not yet applied or refused
Pending == {c \in Callers : gpc[c] \in {"ready", "gatekeep", "write"}}

RECURSIVE SumLen(_)
SumLen(S) == IF S = {} THEN 0
             ELSE LET c == CHOOSE x \in S : TRUE
                  IN  Len(next_write[c]) + SumLen(S \ {c})

\* the caller reads the chain, computes a bundle against the root it sees and
\* decides whether the bundle may be rebased
Prepare(c) ==
    /\ gpc[c] = "idle"
    /\ \E n \in 1..MaxBundle, r \in BOOLEAN :
        /\ Len(db) + SumLen(Pending) + n <= MaxChain
        /\ LET root == get_source_chain_root_hash(db)
           IN  /\ next_write' = [next_write EXCEPT ![c] = prepare_bundle(root, n, c)]
               /\ as_at' = [as_at EXCEPT ![c] = root]
               /\ ghist' = [ghist EXCEPT ![c] =
                               [NoHist EXCEPT !.submitted = prepare_bundle(root, n, c)]]
        /\ rebasable' = [rebasable EXCEPT ![c] = r]
    /\ gpc' = [gpc EXCEPT ![c] = "ready"]
    /\ gresult' = [gresult EXCEPT ![c] = "none"]
    /\ UNCHANGED <<db, inner, db_write, chain_root_hash, chainVars, zomeVars, actorVars, concVars, sideVars>>

\* faulty variant: the lock is handed out while another caller holds it
lock_free_always(holder) == TRUE

\* futures::lock::Mutex::lock: resolves once no caller holds the guard
lock_free(holder) == holder = 0

\* try_append_chain: self.inner.lock().await
LockInner(c) ==
    /\ gpc[c] = "ready"
    /\ lock_free(inner)
    /\ inner' = c
    /\ gpc' = [gpc EXCEPT ![c] = "gatekeep"]
    /\ UNCHANGED <<db, db_write, next_write, as_at, rebasable, chain_root_hash,
                   gresult, ghist, chainVars, zomeVars, actorVars, concVars, sideVars>>

\* faulty variant: the comparison of the root with as_at is inverted
root_moved_inverted(root, valid_at) == root = valid_at

\* gatekeep: `chain_root_hash != as_at`
root_moved(root, valid_at) == root # valid_at

\* faulty variant: a moved root is rebased whatever `rebasable` says
may_rebase_always(flag) == TRUE

\* gatekeep: `if rebasable`
may_rebase(flag) == flag

\* faulty variant: the refused bundle is written all the same
discard_applied(lmdb, transaction) == lmdb \o transaction

\* `return Err(TransactError::HeadMoved)`: next_write is dropped, the durable
\* chain is as it was
discard(lmdb, transaction) == lmdb

\* gatekeep up to the write lock: read the root, compare, rebase or refuse.
\* The call passes (chain_root_hash, as_at) for rebase_headers' (valid_at, now).
GatekeepCheck(c) ==
    /\ gpc[c] = "gatekeep"
    /\ LET root == get_source_chain_root_hash(db)
       IN  /\ chain_root_hash' = [chain_root_hash EXCEPT ![c] = root]
           /\ IF root_moved(root, as_at[c])
              THEN IF may_rebase(rebasable[c])
                   THEN /\ next_write' = [next_write EXCEPT ![c] =
                                             rebase_headers(next_write[c], root, as_at[c])]
                        /\ ghist' = [ghist EXCEPT ![c].rebased = @ + 1, ![c].db_at_read = db]
                        /\ gpc' = [gpc EXCEPT ![c] = "write"]
                        /\ UNCHANGED <<gresult, inner, db>>
                   ELSE /\ gresult' = [gresult EXCEPT ![c] = "HeadMoved"]
                        /\ db' = discard(db, next_write[c])
                        /\ ghist' = [ghist EXCEPT ![c].db_at_read = db,
                                        ![c].db_at_return = discard(db, next_write[c])]
                        /\ gpc' = [gpc EXCEPT ![c] = "done"]
                        /\ inner' = 0
                        /\ UNCHANGED next_write
              ELSE /\ ghist' = [ghist EXCEPT ![c].db_at_read = db]
                   /\ gpc' = [gpc EXCEPT ![c] = "write"]
                   /\ UNCHANGED <<gresult, inner, next_write, db>>
    /\ UNCHANGED <<db_write, as_at, rebasable, chainVars, zomeVars, actorVars, concVars, sideVars>>

\* gatekeep: self.db_write.lock().await
LockWrite(c) ==
    /\ gpc[c] = "write"
    /\ lock_free(db_write)
    /\ db_write' = c
    /\ ghist' = [ghist EXCEPT ![c].write_handle = TRUE]
    /\ gpc' = [gpc EXCEPT ![c] = "apply"]
    /\ UNCHANGED <<db, inner, next_write, as_at, rebasable, chain_root_hash,
                   gresult, chainVars, zomeVars, actorVars, concVars, sideVars>>

\* gatekeep under the write handle: debug_assert_eq, apply, drop both guards.
\* A failed assertion panics in a build with debug assertions and is not
\* evaluated in one without.
Apply(c) ==
    /\ gpc[c] = "apply"
    /\ db_write = c
    /\ LET same == get_source_chain_root_hash(db) = chain_root_hash[c]
       IN  \E debug_assertions \in (IF same THEN {FALSE} ELSE BOOLEAN) :
           IF debug_assertions
           THEN /\ gresult' = [gresult EXCEPT ![c] = "panic"]
                /\ ghist' = [ghist EXCEPT ![c].assert_ok = FALSE, ![c].db_at_return = db]
                /\ UNCHANGED db
           ELSE /\ db' = apply(db, next_write[c])
                /\ gresult' = [gresult EXCEPT ![c] = "Ok"]
                /\ ghist' = [ghist EXCEPT ![c].applied = @ + 1, ![c].assert_ok = same,
                                          ![c].db_at_return = apply(db, next_write[c])]
    /\ db_write' = 0
    /\ inner' = 0
    /\ gpc' = [gpc EXCEPT ![c] = "done"]
    /\ UNCHANGED <<next_write, as_at, rebasable, chain_root_hash, chainVars, zomeVars, actorVars, concVars, sideVars>>

\* the caller takes the result; it may prepare another bundle afterwards
Return(c) ==
    /\ gpc[c] = "done"
    /\ Len(db) + SumLen(Pending) < MaxChain
    /\ gpc' = [gpc EXCEPT ![c] = "idle"]
    /\ UNCHANGED <<db, inner, db_write, next_write, as_at, rebasable,
                   chain_root_hash, gresult, ghist, chainVars, zomeVars, actorVars, concVars, sideVars>>

NextGate ==
    \E c \in Callers :
        \/ Prepare(c)
        \/ LockInner(c)
        \/ GatekeepCheck(c)
        \/ LockWrite(c)
        \/ Apply(c)
        \/ Return(c)

\* ------------------------------------- ChainRootGatekeeper, gatekeep_loop
\* gatekeep run from its first line to its last with no other writer in
\* between: the result and the durable chain it leaves
gatekeep(lmdb, bundle, valid_at, flag) ==
    LET root == get_source_chain_root_hash(lmdb)
    IN  IF root_moved(root, valid_at)
        THEN IF may_rebase(flag)
             THEN [result |-> "Ok",
                   lmdb |-> apply(lmdb, rebase_headers(bundle, root, valid_at))]
             ELSE [result |-> "HeadMoved", lmdb |-> discard(lmdb, bundle)]
        ELSE [result |-> "Ok", lmdb |-> apply(lmdb, bundle)]

ActorInit ==
    /\ writes = <<>>
    /\ reply = [c \in Callers |-> "none"]
    /\ loop_pc = "receive"
    /\ loop_req = None
    /\ loop_result = None
    /\ actor_db = GenesisChain
    /\ arrived = 0
    /\ actor_log = <<>>
    /\ mutex_db = GenesisChain
    /\ mutex_log = <<>>

\* try_append_chain, gatekeep_loop: a reply channel is made, the request is
\* sent on `writes`, the caller suspends on `receive.await`
Enqueue(c) ==
    /\ reply[c] # "waiting"
    /\ arrived < MaxRequests
    /\ \E n \in 1..MaxBundle, r \in BOOLEAN :
        LET root == get_source_chain_root_hash(actor_db)
        IN  writes' = Append(writes, [id |-> arrived + 1, result_sender |-> c,
                                      next_write |-> prepare_bundle(root, n, c),
                                      as_at |-> root, rebasable |-> r])
    /\ arrived' = arrived + 1
    /\ reply' = [reply EXCEPT ![c] = "waiting"]
    /\ UNCHANGED <<loop_pc, loop_req, loop_result, actor_db, actor_log, mutex_db,
                   mutex_log, chainVars, gateVars, zomeVars, concVars, sideVars>>

\* start_loop: `write_queue.receive().await`, then
\* `let result = self.gatekeep(next_write, as_at, rebasable);` with no `.await`.
\* The statement does not type-check as it stands (the future is sent where a
\* Result is expected), so both readings are kept: the future is awaited before
\* it is sent and gatekeep runs here, or it is never polled and gatekeep's
\* body never runs.
LoopReceive ==
    /\ loop_pc = "receive"
    /\ writes # <<>>
    /\ LET req == Head(writes)
           m == gatekeep(mutex_db, req.next_write, req.as_at, req.rebasable)
       IN  /\ loop_req' = Some(req)
           /\ mutex_db' = m.lmdb
           /\ mutex_log' = Append(mutex_log, [id |-> req.id, result |-> m.result])
           /\ \E awaited \in BOOLEAN :
                IF awaited
                THEN LET g == gatekeep(actor_db, req.next_write, req.as_at, req.rebasable)
                     IN  /\ loop_result' = Some([polled |-> TRUE, result |-> g.result])
                         /\ actor_db' = g.lmdb
                ELSE /\ loop_result' = Some([polled |-> FALSE, result |-> "NotRun"])
                     /\ UNCHANGED actor_db
    /\ writes' = Tail(writes)
    /\ loop_pc' = "send"
    /\ UNCHANGED <<reply, arrived, actor_log, chainVars, gateVars, zomeVars, concVars, sideVars>>

\* start_loop: `result_sender.send(result).await`, then the next turn of the loop
LoopSend ==
    /\ loop_pc = "send"
    /\ reply' = [reply EXCEPT ![loop_req[1].result_sender] = loop_result[1].result]
    /\ actor_log' = Append(actor_log, [id |-> loop_req[1].id,
                                       gatekeep_ran |-> loop_result[1].polled,
                                       result |-> loop_result[1].result])
    /\ loop_req' = None
    /\ loop_result' = None
    /\ loop_pc' = "receive"
    /\ UNCHANGED <<writes, actor_db, arrived, mutex_db, mutex_log,
                   chainVars, gateVars, zomeVars, concVars, sideVars>>

NextActor ==
    \/ \E c \in Callers : Enqueue(c)
    \/ LoopReceive
    \/ LoopSend

\* ------------------------------------------------------ call_zome_workflow
ZomeKinds == {"Create", "CreateLink", "DeleteLink", "InitZomesComplete"}

\* the header kinds the `match chain_element.header()` names
HeaderKinds == {"Dna", "AgentValidationPkg", "OpenChain", "CloseChain", "InitZomesComplete",
                "CreateLink", "DeleteLink", "Create", "Update", "Delete"}

\* the kinds of the n elements one call appends: one element of any kind, or
\* several of the kinds of ZomeKinds (one kind for each way of validating)
KindSeqs(n) ==
    IF n = 1 THEN [1..n -> HeaderKinds] ELSE [1..n -> ZomeKinds]

GenesisBuf == genesis(EmptyBuf, "dna_a", "alice", None).buf

\* the element the application code commits next: its header links onto the
\* workspace's chain head
zome_commit(buf, kind) ==
    IF kind = "Create"
    THEN put_raw(buf, CreateHeader("alice", len(buf), chain_head(buf), "App",
                                   EntryHashOf(AppEntry("post"))),
                 Some(AppEntry("post"))).buf
    ELSE put_raw(buf, PlainHeader(kind, "alice", len(buf), chain_head(buf), "x"), None).buf

RECURSIVE zome_commit_all(_, _, _)
zome_commit_all(buf, kinds, i) ==
    IF i > Len(kinds) THEN buf
    ELSE zome_commit_all(zome_commit(buf, kinds[i]), kinds, i + 1)

NoZHist == [sys_calls |-> <<>>, app_calls |-> <<>>, lookups |-> <<>>,
            flushes |-> 0, triggers |-> 0, signal_received |-> FALSE,
            error_payload |-> None,
            env_before |-> EmptyBuf]

ZomeInit ==
    /\ zenv = GenesisBuf
    /\ ws = GenesisBuf
    /\ wf_pc = "start"
    /\ chain_head_start_len = 0
    /\ zresult = "none"
    /\ sys_i = 0
    /\ to_app_validate = <<>>
    /\ app_k = 1
    /\ wresult = "none"
    /\ zhist = [NoZHist EXCEPT !.env_before = GenesisBuf]

\* call_zome_workflow_inner: `chain_head_start_len = ...source_chain.len()`
ZStart ==
    /\ wf_pc = "start"
    /\ chain_head_start_len' = len(ws)
    /\ wf_pc' = "call"
    /\ UNCHANGED <<zenv, ws, zresult, sys_i, to_app_validate, app_k, wresult, zhist,
                   chainVars, gateVars, actorVars, concVars, sideVars>>

\* ribosome.call_zome_function: the application code appends zero or more
\* elements to the workspace and returns Ok or Err; the result is kept, not
\* propagated with `?`
ZCallZome ==
    /\ wf_pc = "call"
    /\ \E n \in 0..MaxNew :
       \E kinds \in KindSeqs(n) :
            ws' = zome_commit_all(ws, kinds, 1)
    /\ \E r \in {"Ok", "Err"} : zresult' = r
    /\ sys_i' = chain_head_start_len
    /\ to_app_validate' = <<>>
    /\ wf_pc' = "sys"
    /\ UNCHANGED <<zenv, chain_head_start_len, app_k, wresult, zhist, chainVars, gateVars, actorVars, concVars, sideVars>>

\* faulty variant: a failed system validation is ignored
sys_outcome_error_ignored(outcome) == "none"

\* `.or_else(|outcome_or_err| outcome_or_err.invalid_call_zome_commit())?`
\* ("If the was en error exit / If the validation failed, exit with an
\* InvalidCommit / If it was ok continue")
sys_outcome_error(outcome) ==
    CASE outcome = "Valid" -> "none"
      [] outcome = "Invalid" -> "InvalidCommit"
      [] OTHER -> "SysValidationError"

\* one turn of `while let Some(element) = get_at_index(i)`
ZSysValidate ==
    /\ wf_pc = "sys"
    /\ len(ws) - chain_head_start_len > 0
    /\ get_at_index(ws, sys_i) # None
    /\ \E outcome \in {"Valid", "Invalid", "Error"} :
        /\ zhist' = [zhist EXCEPT !.sys_calls = Append(@, [i |-> sys_i, outcome |-> outcome])]
        /\ IF sys_outcome_error(outcome) # "none"
           THEN /\ wresult' = sys_outcome_error(outcome)
                /\ wf_pc' = "returned"
                /\ UNCHANGED <<to_app_validate, sys_i>>
           ELSE /\ to_app_validate' = Append(to_app_validate, get_at_index(ws, sys_i)[1])
                /\ sys_i' = sys_i + 1
                /\ UNCHANGED <<wresult, wf_pc>>
    /\ UNCHANGED <<zenv, ws, chain_head_start_len, zresult, app_k, chainVars, gateVars, actorVars, concVars, sideVars>>

\* no new element, or get_at_index(i) is None: the loop ends
ZSysDone ==
    /\ wf_pc = "sys"
    /\ \/ len(ws) - chain_head_start_len = 0
       \/ get_at_index(ws, sys_i) = None
    /\ wf_pc' = "app"
    /\ app_k' = 1
    /\ UNCHANGED <<zenv, ws, chain_head_start_len, zresult, sys_i, to_app_validate,
                   wresult, zhist, chainVars, gateVars, actorVars, concVars, sideVars>>

\* faulty variant: no kind is exempt, the general callback takes the rest
validation_callback_no_exempt(kind) ==
    CASE kind = "CreateLink" -> "create_link"
      [] kind = "DeleteLink" -> "delete_link"
      [] OTHER -> "direct"

\* `match chain_element.header()`: which callback validates the element
validation_callback(kind) ==
    CASE kind \in {"Dna", "AgentValidationPkg", "OpenChain", "CloseChain",
                   "InitZomesComplete"} -> "exempt"
      [] kind = "CreateLink" -> "create_link"
      [] kind = "DeleteLink" -> "delete_link"
      [] OTHER -> "direct"

\* faulty variant: a rejection is taken for an acceptance
app_outcome_error_reject_ok(callback, outcome) ==
    CASE outcome = "Accepted" -> "none"
      [] outcome = "Rejected" -> "none"
      [] outcome = "AwaitingDeps" -> "InvalidCommit"
      [] OTHER -> "RibosomeError"

\* faulty variant: unmet dependencies let the element through
app_outcome_error_await_ok(callback, outcome) ==
    CASE outcome = "Accepted" -> "none"
      [] outcome = "Rejected" ->
            IF callback \in {"create_link", "delete_link"} THEN "InvalidLink"
            ELSE "InvalidCommit"
      [] outcome = "AwaitingDeps" -> "none"
      [] OTHER -> "RibosomeError"

\* `match outcome`: Either::Left for the link callbacks, Either::Right for the
\* direct one; a callback error is propagated with `?`
app_outcome_error(callback, outcome) ==
    CASE outcome = "Accepted" -> "none"
      [] outcome = "Rejected" ->
            IF callback \in {"create_link", "delete_link"} THEN "InvalidLink"
            ELSE "InvalidCommit"
      [] outcome = "AwaitingDeps" -> "InvalidCommit"
      [] OTHER -> "RibosomeError"

LookupResults == {"Some", "None", "Err"}

\* faulty variant: an entry that is not found is passed over
retrieve_error_missing_ok(found) ==
    CASE found = "Some" -> "none"
      [] found = "None" -> "none"
      [] OTHER -> "CascadeError"

\* `cascade.retrieve_entry(..).await.map_err(RibosomeError::from)?
\*      .ok_or_else(|| RibosomeError::ElementDeps(address))?`
retrieve_error(found) ==
    CASE found = "Some" -> "none"
      [] found = "None" -> "ElementDeps"
      [] OTHER -> "CascadeError"

\* format!("{:?}", hashes): a rendering of the list, not the list
DebugFmt(x) == [debug_fmt |-> x]

\* faulty variant: the error carries nothing of the outcome
app_outcome_payload_empty(outcome, reason, hashes) == None

\* what the error built from a callback's outcome carries: `reason` of
\* Rejected(reason), format!("{:?}", hashes) of AwaitingDeps(hashes)
app_outcome_payload(outcome, reason, hashes) ==
    CASE outcome = "Rejected" -> Some(reason)
      [] outcome = "AwaitingDeps" -> Some(DebugFmt(hashes))
      [] OTHER -> None

\* one turn of `for chain_element in to_app_validate`
ZAppValidate ==
    /\ wf_pc = "app"
    /\ app_k <= Len(to_app_validate)
    /\ LET callback == validation_callback(to_app_validate[app_k].signed_header.header.kind)
       IN  IF callback = "exempt"
           THEN /\ app_k' = app_k + 1
                /\ UNCHANGED <<wresult, wf_pc, zhist>>
           ELSE \E base \in LookupResults, target \in LookupResults,
                   outcome \in {"Accepted", "Rejected", "AwaitingDeps", "Error"},
                   detail \in {"d1", "d2"} :
                IF callback = "create_link" /\ retrieve_error(base) # "none"
                THEN \* the base is not retrieved: the target is not looked up
                     /\ target = "Some" /\ outcome = "Accepted" /\ detail = "d1"
                     /\ zhist' = [zhist EXCEPT
                                    !.lookups = Append(@, [k |-> app_k, looked_up |-> <<"base">>,
                                                           found |-> <<base>>]),
                                    !.error_payload =
                                        IF base = "None" THEN Some("base_address") ELSE None]
                     /\ wresult' = retrieve_error(base)
                     /\ wf_pc' = "returned"
                     /\ UNCHANGED app_k
                ELSE IF callback = "create_link" /\ retrieve_error(target) # "none"
                THEN /\ outcome = "Accepted" /\ detail = "d1"
                     /\ zhist' = [zhist EXCEPT
                                    !.lookups = Append(@, [k |-> app_k,
                                                           looked_up |-> <<"base", "target">>,
                                                           found |-> <<base, target>>]),
                                    !.error_payload =
                                        IF target = "None" THEN Some("target_address") ELSE None]
                     /\ wresult' = retrieve_error(target)
                     /\ wf_pc' = "returned"
                     /\ UNCHANGED app_k
                ELSE /\ callback # "create_link" => (base = "Some" /\ target = "Some")
                     /\ outcome \in {"Accepted", "Error"} => detail = "d1"
                     /\ zhist' = [zhist EXCEPT
                                    !.app_calls = Append(@, [k |-> app_k, callback |-> callback,
                                                             outcome |-> outcome,
                                                             detail |-> detail]),
                                    !.lookups = IF callback = "create_link"
                                                THEN Append(@, [k |-> app_k,
                                                        looked_up |-> <<"base", "target">>,
                                                        found |-> <<base, target>>])
                                                ELSE @,
                                    !.error_payload =
                                        app_outcome_payload(outcome, detail, <<detail>>)]
                     /\ IF app_outcome_error(callback, outcome) # "none"
                        THEN /\ wresult' = app_outcome_error(callback, outcome)
                             /\ wf_pc' = "returned"
                             /\ UNCHANGED app_k
                        ELSE /\ app_k' = app_k + 1
                             /\ UNCHANGED <<wresult, wf_pc>>
    /\ UNCHANGED <<zenv, ws, chain_head_start_len, zresult, sys_i, to_app_validate,
                   chainVars, gateVars, actorVars, concVars, sideVars>>

\* the loop is over: call_zome_workflow_inner returns Ok(result)
ZAppDone ==
    /\ wf_pc = "app"
    /\ app_k > Len(to_app_validate)
    /\ wf_pc' = "commit"
    /\ UNCHANGED <<zenv, ws, chain_head_start_len, zresult, sys_i, to_app_validate,
                   app_k, wresult, zhist, chainVars, gateVars, actorVars, concVars, sideVars>>

\* faulty variant: the result of the flush is dropped
with_writer_error_ignored(committed) == "none"

\* the `?` after `writer.with_writer(...)`: a failed flush ends the call
with_writer_error(committed) == IF committed THEN "none" ELSE "FlushError"

\* `writer.with_writer(|writer| workspace.flush_to_txn_ref(writer))?`: the
\* transaction commits as a whole, or fails and leaves the environment as it was
ZFlush ==
    /\ wf_pc = "commit"
    /\ \E committed \in BOOLEAN :
        /\ zenv' = IF committed THEN flush_to_txn_ref(zenv, ws) ELSE zenv
        /\ zhist' = [zhist EXCEPT !.flushes = @ + (IF committed THEN 1 ELSE 0)]
        /\ IF with_writer_error(committed) = "none"
           THEN /\ wf_pc' = "trigger"
                /\ UNCHANGED wresult
           ELSE /\ wresult' = with_writer_error(committed)
                /\ wf_pc' = "returned"
    /\ UNCHANGED <<ws, chain_head_start_len, zresult, sys_i, to_app_validate, app_k,
                   chainVars, gateVars, actorVars, concVars, sideVars>>

\* `trigger_produce_dht_ops.trigger(); Ok(result)`: the call gives nothing
\* back and is not awaited; the consumer may or may not receive the signal
ZTrigger ==
    /\ wf_pc = "trigger"
    /\ \E received \in BOOLEAN :
        zhist' = [zhist EXCEPT !.triggers = @ + 1, !.signal_received = received]
    /\ wresult' = "Ok"
    /\ wf_pc' = "returned"
    /\ UNCHANGED <<zenv, ws, chain_head_start_len, zresult, sys_i, to_app_validate, app_k,
                   chainVars, gateVars, actorVars, concVars, sideVars>>

\* faulty variant: a dropped workspace is flushed
drop_workspace_flushed(env, workspace) == flush_to_txn_ref(env, workspace)

\* the workspace goes out of scope unflushed: the environment is as it was
drop_workspace(env, workspace) == env

\* the caller drops the future of call_zome_workflow at one of its await
\* points before the flush begins: the workspace is dropped with it
ZCancel ==
    /\ wf_pc \in {"call", "sys", "app", "commit"}
    /\ zenv' = drop_workspace(zenv, ws)
    /\ wresult' = "Cancelled"
    /\ wf_pc' = "returned"
    /\ UNCHANGED <<ws, chain_head_start_len, zresult, sys_i, to_app_validate, app_k, zhist,
                   chainVars, gateVars, actorVars, concVars, sideVars>>

\* the next call builds a fresh workspace on the environment
ZNextCall ==
    /\ wf_pc = "returned"
    /\ len(zenv) + MaxNew <= MaxZomeChain
    /\ ws' = zenv
    /\ wf_pc' = "start"
    /\ zresult' = "none"
    /\ wresult' = "none"
    /\ to_app_validate' = <<>>
    /\ app_k' = 1
    /\ sys_i' = 0
    /\ chain_head_start_len' = 0
    /\ zhist' = [NoZHist EXCEPT !.env_before = zenv]
    /\ UNCHANGED <<zenv, chainVars, gateVars, actorVars, concVars, sideVars>>

NextZome ==
    \/ ZStart
    \/ ZCallZome
    \/ ZSysValidate
    \/ ZSysDone
    \/ ZAppValidate
    \/ ZAppDone
    \/ ZFlush
    \/ ZTrigger
    \/ ZCancel
    \/ ZNextCall

\* ------------------------------------ concurrent call_zome_workflow calls
\* Each call owns its workspace; the commit of the source-chain part goes
\* through the gatekeeper's contract, which runs one gatekeep at a time.
ConcInit ==
    /\ cenv = GenesisChain
    /\ cz_pc = [c \in Callers |-> "idle"]
    /\ cz_root = [c \in Callers |-> get_source_chain_root_hash(GenesisChain)]
    /\ cz_bundle = [c \in Callers |-> <<>>]
    /\ cz_result = [c \in Callers |-> "none"]

\* headers appended by the calls that have not returned
RECURSIVE InFlight(_)
InFlight(S) == IF S = {} THEN 0
               ELSE LET c == CHOOSE x \in S : TRUE
                    IN  (IF cz_pc[c] \in {"call", "commit"} THEN MaxBundle ELSE 0)
                            + InFlight(S \ {c})

\* CallZomeWorkspace::new: the workspace is built on the durable chain head
CBuild(c) ==
    /\ cz_pc[c] = "idle"
    /\ Len(cenv) + InFlight(Callers) <= MaxChain
    /\ cz_root' = [cz_root EXCEPT ![c] = get_source_chain_root_hash(cenv)]
    /\ cz_bundle' = [cz_bundle EXCEPT ![c] = <<>>]
    /\ cz_result' = [cz_result EXCEPT ![c] = "none"]
    /\ cz_pc' = [cz_pc EXCEPT ![c] = "call"]
    /\ UNCHANGED <<cenv, chainVars, gateVars, zomeVars, actorVars, sideVars>>

\* call_zome_workflow_inner: the application code appends headers onto the
\* workspace's head; validation lets them through or ends the call
CInner(c) ==
    /\ cz_pc[c] = "call"
    /\ \E n \in 0..MaxBundle, valid \in BOOLEAN :
        /\ cz_bundle' = [cz_bundle EXCEPT ![c] = prepare_bundle(cz_root[c], n, c)]
        /\ IF valid
           THEN /\ cz_pc' = [cz_pc EXCEPT ![c] = "commit"]
                /\ UNCHANGED cz_result
           ELSE /\ cz_pc' = [cz_pc EXCEPT ![c] = "returned"]
                /\ cz_result' = [cz_result EXCEPT ![c] = "InvalidCommit"]
    /\ UNCHANGED <<cenv, cz_root, chainVars, gateVars, zomeVars, actorVars, sideVars>>

\* the commit step: the new headers are handed to the gatekeeper with the head
\* the workspace was built on
CCommit(c) ==
    /\ cz_pc[c] = "commit"
    /\ \E flag \in BOOLEAN :
        LET g == gatekeep(cenv, cz_bundle[c], cz_root[c], flag)
        IN  /\ cenv' = g.lmdb
            /\ cz_result' = [cz_result EXCEPT ![c] = g.result]
    /\ cz_pc' = [cz_pc EXCEPT ![c] = "returned"]
    /\ UNCHANGED <<cz_root, cz_bundle, chainVars, gateVars, zomeVars, actorVars, sideVars>>

\* the call has returned; the caller may call again
CReturn(c) ==
    /\ cz_pc[c] = "returned"
    /\ cz_pc' = [cz_pc EXCEPT ![c] = "idle"]
    /\ UNCHANGED <<cenv, cz_root, cz_bundle, cz_result, chainVars, gateVars, zomeVars,
                   actorVars, sideVars>>

NextConc ==
    \E c \in Callers :
        \/ CBuild(c)
        \/ CInner(c)
        \/ CCommit(c)
        \/ CReturn(c)

\* ---------------------------------------------------------- ConductorHandle
Ok(value) == [tag |-> "Ok", value |-> value]
Err(error) == [tag |-> "Err", value |-> error]

Handles == 1..MaxHandles
InstallableDnas == 1..MaxDnas

NoCall == [handle |-> 0, op |-> "none", result |-> Ok("unit"), after_shutdown |-> FALSE]

HandleInit ==
    /\ conductor = [shutting_down |-> FALSE, dna_store |-> {}]
    /\ handles = 1
    /\ shutdown_by = None
    /\ h_log = NoCall

\* ConductorHandleImpl::check_running: "Check that shutdown has not been called"
check_running(c) == IF c.shutting_down THEN Err("ShuttingDown") ELSE Ok("unit")

\* ConductorHandleImpl::shutdown: the conductor is marked as shutting down
shutdown(c) == [c EXCEPT !.shutting_down = TRUE]

\* ConductorHandleImpl::list_dnas: `Ok(self.conductor.read().await.dna_store().list())`
list_dnas(c) == Ok(c.dna_store)

\* ConductorHandleImpl::install_dna: `put_wasm(dna.clone()).await?`, then the
\* dna is added to the store
install_dna(c, dna, wasm_ok) ==
    IF wasm_ok
    THEN [conductor |-> [c EXCEPT !.dna_store = @ \cup {dna}], result |-> Ok("unit")]
    ELSE [conductor |-> c, result |-> Err("WasmError")]

\* `let handle2 = handle.clone();`
HClone ==
    /\ handles < MaxHandles
    /\ handles' = handles + 1
    /\ UNCHANGED <<conductor, shutdown_by, h_log>>
    /\ UNCHANGED <<chainVars, gateVars, zomeVars, actorVars, concVars, authVars, dhtVars, wsVars, rwVars, itVars>>

HLog(h, op, result) ==
    [handle |-> h, op |-> op, result |-> result, after_shutdown |-> shutdown_by # None]

HInstallDna(h) ==
    /\ h \in 1..handles
    /\ \E dna \in InstallableDnas, wasm_ok \in BOOLEAN :
        LET r == install_dna(conductor, dna, wasm_ok)
        IN  /\ conductor' = r.conductor
            /\ h_log' = HLog(h, "install_dna", r.result)
    /\ UNCHANGED <<handles, shutdown_by>>
    /\ UNCHANGED <<chainVars, gateVars, zomeVars, actorVars, concVars, authVars, dhtVars, wsVars, rwVars, itVars>>

HListDnas(h) ==
    /\ h \in 1..handles
    /\ h_log' = HLog(h, "list_dnas", list_dnas(conductor))
    /\ UNCHANGED <<conductor, handles, shutdown_by>>
    /\ UNCHANGED <<chainVars, gateVars, zomeVars, actorVars, concVars, authVars, dhtVars, wsVars, rwVars, itVars>>

HCheckRunning(h) ==
    /\ h \in 1..handles
    /\ h_log' = HLog(h, "check_running", check_running(conductor))
    /\ UNCHANGED <<conductor, handles, shutdown_by>>
    /\ UNCHANGED <<chainVars, gateVars, zomeVars, actorVars, concVars, authVars, dhtVars, wsVars, rwVars, itVars>>

HShutdown(h) ==
    /\ h \in 1..handles
    /\ conductor' = shutdown(conductor)
    /\ shutdown_by' = IF shutdown_by = None THEN Some(h) ELSE shutdown_by
    /\ h_log' = HLog(h, "shutdown", Ok("unit"))
    /\ UNCHANGED handles
    /\ UNCHANGED <<chainVars, gateVars, zomeVars, actorVars, concVars, authVars, dhtVars, wsVars, rwVars, itVars>>

NextHandle ==
    \/ HClone
    \/ \E h \in Handles : HInstallDna(h)
    \/ \E h \in Handles : HListDnas(h)
    \/ \E h \in Handles : HCheckRunning(h)
    \/ \E h \in Handles : HShutdown(h)

\* ------------------------------------------- authored and integrated stores
\* The stores are read by entry hash only, so each is the set of the entries
\* it holds; the metadata and the caches written by the same flush are read
\* by no modelled operation and are left out.
Entries == {AppEntry(n) : n \in 1..MaxEntries}

AuthInit ==
    /\ authored = [a \in Agents |-> {}]
    /\ integrated = [a \in Agents |-> {}]
    /\ published = {}
    /\ committed_by = [a \in Agents |-> {}]

\* ElementBuf::get_entry on a store
store_get_entry(store, k) ==
    LET found == {e \in store : EntryHashOf(e) = k}
    IN  IF found = {} THEN None ELSE Some(CHOOSE e \in found : TRUE)

\* faulty variant: the new elements are written to the integrated store
workspace_flush_to_txn_ref_integrated(env, source_chain) ==
    [authored |-> env.authored, integrated |-> env.integrated \cup source_chain]

\* CallZomeWorkspace::flush_to_txn_ref: the source chain (the authored store)
\* is written; element_integrated and meta_integrated are opened by the
\* workspace and never flushed
workspace_flush_to_txn_ref(env, source_chain) ==
    [authored |-> env.authored \cup source_chain, integrated |-> env.integrated]

\* commit_entry(&env, call_data, entry, POST_ID): a zome call of the agent's
\* own cell commits the entry
ACommit(a) ==
    /\ \E entry \in Entries :
        LET env == workspace_flush_to_txn_ref(
                       [authored |-> authored[a], integrated |-> integrated[a]], {entry})
        IN  /\ authored' = [authored EXCEPT ![a] = env.authored]
            /\ integrated' = [integrated EXCEPT ![a] = env.integrated]
            /\ committed_by' = [committed_by EXCEPT ![a] = @ \cup {entry}]
            /\ <<authored', integrated'>> # <<authored, integrated>>
    /\ UNCHANGED published
    /\ UNCHANGED <<chainVars, gateVars, zomeVars, actorVars, concVars, handleVars, dhtVars, wsVars, rwVars, itVars>>

\* triggers.produce_dht_ops.trigger(): the agent's authored elements are
\* turned into DHT ops and published
AProduce(a) ==
    /\ ~(authored[a] \subseteq published)
    /\ published' = published \cup authored[a]
    /\ UNCHANGED <<authored, integrated, committed_by>>
    /\ UNCHANGED <<chainVars, gateVars, zomeVars, actorVars, concVars, handleVars, dhtVars, wsVars, rwVars, itVars>>

\* what wait_for_integration waits for: a published op is integrated by an agent
AIntegrate(a) ==
    /\ \E entry \in published \ integrated[a] :
        integrated' = [integrated EXCEPT ![a] = @ \cup {entry}]
    /\ UNCHANGED <<authored, published, committed_by>>
    /\ UNCHANGED <<chainVars, gateVars, zomeVars, actorVars, concVars, handleVars, dhtVars, wsVars, rwVars, itVars>>

NextAuthored ==
    \/ \E a \in Agents : ACommit(a)
    \/ \E a \in Agents : AProduce(a)
    \/ \E a \in Agents : AIntegrate(a)

\* ------------------------------------------------------- pending DHT ops
\* The sequence index entry is (sequence number -> header address, pending
\* flag); the flags are kept beside the addresses, as the set of the
\* sequence numbers marked complete.
NoDhtHist == [called |-> FALSE, panicked |-> FALSE, ops |-> <<>>, len_db |-> 0, len_sc |-> 0,
              complete_db |-> {}, complete_scratch |-> {}, marked |-> {},
              committed_marks |-> {}]

DhtInit ==
    /\ dht_sc = EmptyBuf
    /\ dht_db = EmptyBuf
    /\ complete_scratch = {}
    /\ complete_db = {}
    /\ dht_hist = NoDhtHist

\* produce_ops_from_element: the external derivation, a function of the element
produce_ops_from_element(element) ==
    [ops_of |-> HashOf(element.signed_header.header)]

\* ChainSequenceBuf::get_items_with_incomplete_dht_ops: (i, header address) of
\* every item not marked complete
RECURSIVE get_items_with_incomplete_dht_ops(_, _, _)
get_items_with_incomplete_dht_ops(sequence, complete, i) ==
    IF i >= Len(sequence) THEN <<>>
    ELSE (IF i \in complete THEN <<>> ELSE << <<i, sequence[i + 1]>> >>)
             \o get_items_with_incomplete_dht_ops(sequence, complete, i + 1)

\* ChainSequenceBuf::complete_dht_op: the item at i, if there is one, is marked
complete_dht_op(sequence, complete, i) ==
    IF i < Len(sequence) THEN complete \cup {i} ELSE complete

\* faulty variant: the pairs are keyed by their position in the result
get_incomplete_dht_ops_by_position(buf, sequence, complete) ==
    LET ops_headers == get_items_with_incomplete_dht_ops(sequence, complete, 0)
    IN  [panicked |-> \E k \in 1..Len(ops_headers) :
                          get_element(buf, ops_headers[k][2]) = None,
         ops |-> [k \in 1..Len(ops_headers) |->
                    LET element == get_element(buf, ops_headers[k][2])
                    IN  IF element = None THEN <<k - 1, None>>
                        ELSE <<k - 1, Some(produce_ops_from_element(element[1]))>>]]

\* SourceChainBuf::get_incomplete_dht_ops: the incomplete items read from the
\* index, each expanded from its element (`expect`: a missing element panics)
get_incomplete_dht_ops(buf, sequence, complete) ==
    LET ops_headers == get_items_with_incomplete_dht_ops(sequence, complete, 0)
    IN  [panicked |-> \E k \in 1..Len(ops_headers) :
                          get_element(buf, ops_headers[k][2]) = None,
         ops |-> [k \in 1..Len(ops_headers) |->
                    LET element == get_element(buf, ops_headers[k][2])
                    IN  IF element = None THEN <<ops_headers[k][1], None>>
                        ELSE <<ops_headers[k][1],
                               Some(produce_ops_from_element(element[1]))>>]]

\* an element is appended to the buffer's scratch: the Dna header first, then
\* entries created by the agent
DPutRaw ==
    /\ len(dht_sc) < MaxDhtLen
    /\ LET header == IF len(dht_sc) = 0 THEN DnaHeader("alice", "dna_a")
                      ELSE CreateHeader("alice", len(dht_sc), chain_head(dht_sc), "App",
                                        EntryHashOf(AppEntry("post")))
           maybe_entry == IF header.kind = "Create" THEN Some(AppEntry("post")) ELSE None
       IN  dht_sc' = put_raw(dht_sc, header, maybe_entry).buf
    /\ UNCHANGED <<dht_db, complete_scratch, complete_db, dht_hist>>
    /\ UNCHANGED <<chainVars, gateVars, zomeVars, actorVars, concVars, handleVars, authVars, wsVars, rwVars, itVars>>

\* get_incomplete_dht_ops reads the index through a fresh reader.
\* ChainSequenceBuf is not among the sources: the reader sees the committed
\* items, and whether the buffer lays its scratch over them is left open.
DGetIncomplete ==
    /\ \E overlay \in BOOLEAN :
        LET r == IF overlay
                 THEN get_incomplete_dht_ops(dht_sc, dht_sc.sequence,
                                             complete_db \cup complete_scratch)
                 ELSE get_incomplete_dht_ops(dht_sc, dht_db.sequence, complete_db)
        IN  dht_hist' = [dht_hist EXCEPT !.called = TRUE, !.panicked = r.panicked,
                            !.ops = r.ops, !.len_db = len(dht_db),
                            !.len_sc = len(dht_sc),
                            !.complete_db = complete_db,
                            !.complete_scratch = complete_scratch]
    /\ UNCHANGED <<dht_sc, dht_db, complete_scratch, complete_db>>
    /\ UNCHANGED <<chainVars, gateVars, zomeVars, actorVars, concVars, handleVars, authVars, wsVars, rwVars, itVars>>

\* complete_dht_op(i) on the buffer: the mark goes to the scratch
DComplete ==
    /\ \E i \in 0..(MaxDhtLen - 1) :
        /\ complete_scratch' = complete_dht_op(dht_sc.sequence, complete_scratch, i)
        /\ dht_hist' = [dht_hist EXCEPT !.marked =
                            IF i < len(dht_sc) THEN @ \cup {i} ELSE @]
        /\ <<complete_scratch', dht_hist'>> # <<complete_scratch, dht_hist>>
    /\ UNCHANGED <<dht_sc, dht_db, complete_db>>
    /\ UNCHANGED <<chainVars, gateVars, zomeVars, actorVars, concVars, handleVars, authVars, wsVars, rwVars, itVars>>

\* the buffer is flushed and the transaction commits: elements, index, marks
DFlush ==
    /\ dht_db # dht_sc \/ complete_scratch # {}
    /\ dht_db' = flush_to_txn_ref(dht_db, dht_sc)
    /\ complete_db' = complete_db \cup complete_scratch
    /\ complete_scratch' = {}
    /\ dht_hist' = [dht_hist EXCEPT !.committed_marks = @ \cup dht_hist.marked,
                                    !.marked = {}]
    /\ UNCHANGED dht_sc
    /\ UNCHANGED <<chainVars, gateVars, zomeVars, actorVars, concVars, handleVars, authVars, wsVars, rwVars, itVars>>

NextDht ==
    \/ DPutRaw
    \/ DGetIncomplete
    \/ DComplete
    \/ DFlush

NextChain == PutRaw \/ Genesis \/ Flush

\* ------------------------------------------------------- CallZomeWorkspace
\* Each database is the set of the items written to it; an item stands for an
\* element, a metadata record or a cached copy of the entry AppEntry(n).
Buffers == {"source_chain", "meta_authored", "element_integrated",
            "meta_integrated", "element_cache", "meta_cache"}

\* CallZomeWorkspace::new: six buffers over the environment, scratches empty
CallZomeWorkspace_new == [b \in Buffers |-> {}]

WorkspaceInit ==
    /\ ws_env = CallZomeWorkspace_new
    /\ ws_last = "none"

\* The host functions reach the workspace through CallZomeWorkspaceLock and
\* are not part of src: a commit puts into source_chain, a link into
\* meta_authored, a get fills both caches through the cascade (the only
\* buffers it takes by &mut); "integrated" stands for any put a host function
\* might make into the scratch of the two integrated buffers.
HostCalls == {"commit", "link", "get", "integrated"}

host_written(call) ==
    CASE call = "commit" -> {"source_chain"}
      [] call = "link" -> {"meta_authored"}
      [] call = "get" -> {"element_cache", "meta_cache"}
      [] call = "integrated" -> {"element_integrated", "meta_integrated"}

\* the scratches of the workspace after the zome function made `calls` on item
call_zome_function_scratch(calls, item) ==
    [b \in Buffers |-> IF \E call \in calls : b \in host_written(call)
                       THEN {item} ELSE {}]

\* faulty variant: every buffer of the workspace is flushed
CallZomeWorkspace_flush_to_txn_ref_all(env, workspace) ==
    [b \in Buffers |-> env[b] \cup workspace[b]]

\* impl Workspace for CallZomeWorkspace, flush_to_txn_ref: source_chain,
\* meta_authored, element_cache and meta_cache are flushed, in one transaction
CallZomeWorkspace_flush_to_txn_ref(env, workspace) ==
    [b \in Buffers |->
        IF b \in {"source_chain", "meta_authored", "element_cache", "meta_cache"}
        THEN env[b] \cup workspace[b]
        ELSE env[b]]

\* call_zome_workflow on a fresh workspace: the zome function runs, then the
\* workspace is flushed; an error of call_zome_workflow_inner or of
\* with_writer returns before anything is written
WCallZome ==
    /\ \E item \in 1..MaxEntries, calls \in SUBSET HostCalls, ok \in BOOLEAN :
        LET workspace == call_zome_function_scratch(calls, item)
        IN  /\ ws_env' = IF ok THEN CallZomeWorkspace_flush_to_txn_ref(ws_env, workspace)
                               ELSE ws_env
            /\ ws_last' = IF ok THEN "Ok" ELSE "Err"
    /\ UNCHANGED <<chainVars, gateVars, zomeVars, actorVars, concVars,
                   handleVars, authVars, dhtVars, rwVars, itVars>>

\* the integration workflow (another workspace) integrates an authored element
WIntegrate ==
    /\ \E item \in ws_env["source_chain"] \ ws_env["element_integrated"] :
        ws_env' = [ws_env EXCEPT !["element_integrated"] = @ \cup {item},
                                 !["meta_integrated"] = @ \cup {item}]
    /\ ws_last' = "integrate"
    /\ UNCHANGED <<chainVars, gateVars, zomeVars, actorVars, concVars,
                   handleVars, authVars, dhtVars, rwVars, itVars>>

NextWorkspace == WCallZome \/ WIntegrate

\* ------------------------------------------ ConductorHandle, RwLock<Conductor>
\* The operations by the guard they take: call_zome, list_dnas and get_dna
\* hold conductor.read(); shutdown, add_app_interface and activate_app hold
\* conductor.write(); install_dna holds read() over put_wasm and then write()
\* for the store update.
RwOps == [read |-> {"call_zome", "list_dnas", "get_dna"},
          write |-> {"shutdown", "add_app_interface", "activate_app"},
          both |-> {"install_dna"}]

RwInit ==
    /\ rw_readers = {}
    /\ rw_writer = 0
    /\ rw_op = [t \in Handles |-> "none"]
    /\ rw_pc = [t \in Handles |-> "idle"]
    /\ rw_log = [op |-> "none", wrote |-> FALSE, during_zome |-> FALSE]

\* the zome calls in progress: call_zome between `self.conductor.read().await`
\* and its return
zome_calls(op, pc) ==
    {t \in Handles : op[t] = "call_zome" /\ pc[t] \in {"reading", "returning"}}

\* RwLock::read resolves only while no task holds the write guard (a waiting
\* writer may delay it further; the model leaves that open)
rwlock_read_free(readers, writer) == writer = 0

\* faulty variant: the write guard is handed out while read guards are held
rwlock_write_free_readers_ignored(readers, writer) == writer = 0

\* RwLock::write resolves only while no task holds any guard
rwlock_write_free(readers, writer) == readers = {} /\ writer = 0

\* a task calls one operation of the handle
RwStart(t) ==
    /\ rw_pc[t] = "idle"
    /\ \E op \in RwOps.read \cup RwOps.write \cup RwOps.both :
        /\ rw_op' = [rw_op EXCEPT ![t] = op]
        /\ rw_pc' = [rw_pc EXCEPT ![t] =
                        IF op \in RwOps.write THEN "write_wait" ELSE "read_wait"]
    /\ UNCHANGED <<rw_readers, rw_writer, rw_log>>
    /\ UNCHANGED <<chainVars, gateVars, zomeVars, actorVars, concVars,
                   handleVars, authVars, dhtVars, wsVars, itVars>>

\* `self.conductor.read().await`
RwRead(t) ==
    /\ rw_pc[t] = "read_wait"
    /\ rwlock_read_free(rw_readers, rw_writer)
    /\ rw_readers' = rw_readers \cup {t}
    /\ rw_pc' = [rw_pc EXCEPT ![t] = "reading"]
    /\ UNCHANGED <<rw_writer, rw_op, rw_log>>
    /\ UNCHANGED <<chainVars, gateVars, zomeVars, actorVars, concVars,
                   handleVars, authVars, dhtVars, wsVars, itVars>>

\* call_zome: `lock.cell_by_id(..)?` fails, or `cell.call_zome(invocation).await`
\* resolves; the guard `lock` is still alive
RwCellReturns(t) ==
    /\ rw_op[t] = "call_zome"
    /\ rw_pc[t] = "reading"
    /\ rw_pc' = [rw_pc EXCEPT ![t] = "returning"]
    /\ UNCHANGED <<rw_readers, rw_writer, rw_op, rw_log>>
    /\ UNCHANGED <<chainVars, gateVars, zomeVars, actorVars, concVars,
                   handleVars, authVars, dhtVars, wsVars, itVars>>

\* the read guard is dropped: call_zome, list_dnas and get_dna return;
\* install_dna returns if put_wasm failed (`?`) and goes on to write() if not
RwReturnRead(t) ==
    /\ \/ rw_op[t] = "call_zome" /\ rw_pc[t] = "returning"
       \/ rw_op[t] # "call_zome" /\ rw_pc[t] = "reading"
    /\ rw_readers' = rw_readers \ {t}
    /\ \E wasm_ok \in BOOLEAN :
        IF rw_op[t] \in RwOps.both /\ wasm_ok
        THEN /\ rw_pc' = [rw_pc EXCEPT ![t] = "write_wait"]
             /\ UNCHANGED <<rw_op, rw_log>>
        ELSE /\ rw_pc' = [rw_pc EXCEPT ![t] = "idle"]
             /\ rw_op' = [rw_op EXCEPT ![t] = "none"]
             /\ rw_log' = [op |-> rw_op[t], wrote |-> FALSE,
                           during_zome |-> zome_calls(rw_op, rw_pc) \ {t} # {}]
    /\ UNCHANGED rw_writer
    /\ UNCHANGED <<chainVars, gateVars, zomeVars, actorVars, concVars,
                   handleVars, authVars, dhtVars, wsVars, itVars>>

\* `self.conductor.write().await`
RwWrite(t) ==
    /\ rw_pc[t] = "write_wait"
    /\ rwlock_write_free(rw_readers, rw_writer)
    /\ rw_writer' = t
    /\ rw_pc' = [rw_pc EXCEPT ![t] = "writing"]
    /\ UNCHANGED <<rw_readers, rw_op, rw_log>>
    /\ UNCHANGED <<chainVars, gateVars, zomeVars, actorVars, concVars,
                   handleVars, authVars, dhtVars, wsVars, itVars>>

\* the conductor is updated under the write guard and the operation returns
RwReturnWrite(t) ==
    /\ rw_pc[t] = "writing"
    /\ rw_writer' = 0
    /\ rw_pc' = [rw_pc EXCEPT ![t] = "idle"]
    /\ rw_op' = [rw_op EXCEPT ![t] = "none"]
    /\ rw_log' = [op |-> rw_op[t], wrote |-> TRUE,
                  during_zome |-> zome_calls(rw_op, rw_pc) # {}]
    /\ UNCHANGED rw_readers
    /\ UNCHANGED <<chainVars, gateVars, zomeVars, actorVars, concVars,
                   handleVars, authVars, dhtVars, wsVars, itVars>>

NextRw ==
    \E t \in Handles :
        \/ RwStart(t)
        \/ RwRead(t)
        \/ RwCellReturns(t)
        \/ RwReturnRead(t)
        \/ RwWrite(t)
        \/ RwReturnWrite(t)

\* ------------------------------------------- SourceChainBackwardIterator
ItInit ==
    /\ it_store = EmptyBuf
    /\ it_iter = [open |-> FALSE, current |-> None, calls |-> 0, lookups |-> 0,
                  items |-> <<>>, ended |-> FALSE, last |-> None]

\* faulty variant: an iterator that has ended starts again from the chain head
iterator_next_restarting(store, current) ==
    LET from == IF current = None THEN chain_head(store) ELSE current
        header == IF from = None THEN None ELSE get_header(store, from[1])
    IN  [current |-> IF header = None THEN None ELSE header[1].header.prev_header,
         item |-> header,
         lookups |-> IF from = None THEN 0 ELSE 1]

\* SourceChainBackwardIterator::next: no lookup when `current` is None; else
\* one get_header, and `current` becomes the prev_header of the header found,
\* or None when there is none
iterator_next(store, current) ==
    IF current = None
    THEN [current |-> None, item |-> None, lookups |-> 0]
    ELSE LET header == get_header(store, current[1])
         IN  [current |-> IF header = None THEN None
                          ELSE header[1].header.prev_header,
              item |-> header,
              lookups |-> 1]

\* put_raw while no iterator borrows the buffer; it checks no link, so the
\* new header may name no predecessor, any indexed header, or a header the
\* store does not hold
ItPutRaw ==
    /\ ~it_iter.open
    /\ len(it_store) < MaxIterLen
    /\ LET missing == HashOf(PlainHeader("Create", "alice", 0, None, "missing"))
           prevs == {None, Some(missing)}
                        \cup {Some(it_store.sequence[i]) : i \in 1..len(it_store)}
       IN  \E prev_header \in prevs :
               it_store' = put_raw(it_store,
                                   PlainHeader("Create", "alice", len(it_store),
                                               prev_header, "x"),
                                   None).buf
    /\ UNCHANGED it_iter
    /\ UNCHANGED <<chainVars, gateVars, zomeVars, actorVars, concVars,
                   handleVars, authVars, dhtVars, wsVars, rwVars>>

\* SourceChainBuf::iter_back: SourceChainBackwardIterator::new(self), with
\* `current` the chain head; an iterator in use is given up for the new one
ItIterBack ==
    /\ it_iter' = [open |-> TRUE, current |-> chain_head(it_store), calls |-> 0,
                   lookups |-> 0, items |-> <<>>, ended |-> FALSE, last |-> None]
    /\ UNCHANGED it_store
    /\ UNCHANGED <<chainVars, gateVars, zomeVars, actorVars, concVars,
                   handleVars, authVars, dhtVars, wsVars, rwVars>>

\* one call of next() on the iterator
ItNext ==
    /\ it_iter.open
    /\ it_iter.calls < len(it_store) + 3
    /\ LET r == iterator_next(it_store, it_iter.current)
       IN  it_iter' = [open |-> TRUE,
                       current |-> r.current,
                       calls |-> it_iter.calls + 1,
                       lookups |-> it_iter.lookups + r.lookups,
                       items |-> it_iter.items \o r.item,
                       ended |-> it_iter.ended \/ r.item = None,
                       last |-> r.item]
    /\ UNCHANGED it_store
    /\ UNCHANGED <<chainVars, gateVars, zomeVars, actorVars, concVars,
                   handleVars, authVars, dhtVars, wsVars, rwVars>>

NextIter == ItPutRaw \/ ItIterBack \/ ItNext

\* ChainRootHandle::new called once per caller on the same database: every
\* handle wraps a gatekeeper of its own in a mutex of its own, so
\* self.inner.lock().await of one handle never waits for another handle's
\* call; db_write and db_read are the shared ones
LockOwnInner(c) ==
    /\ gpc[c] = "ready"
    /\ gpc' = [gpc EXCEPT ![c] = "gatekeep"]
    /\ UNCHANGED <<db, inner, db_write, next_write, as_at, rebasable, chain_root_hash,
                   gresult, ghist, chainVars, zomeVars, actorVars, concVars, sideVars>>

\* new called twice: two handles, one caller each
NextTwoGate ==
    \E c \in {1, 2} :
        \/ Prepare(c)
        \/ LockOwnInner(c)
        \/ GatekeepCheck(c)
        \/ LockWrite(c)
        \/ Apply(c)
        \/ Return(c)

Init ==
    /\ ChainInit /\ GateInit /\ ZomeInit /\ ActorInit /\ ConcInit
    /\ HandleInit /\ AuthInit /\ DhtInit
    /\ WorkspaceInit
    /\ RwInit
    /\ ItInit

SpecChain == Init /\ [][NextChain]_vars

SpecGate == Init /\ [][NextGate]_vars

SpecZome == Init /\ [][NextZome]_vars

SpecActor == Init /\ [][NextActor]_vars

SpecConc == Init /\ [][NextConc]_vars

\* futures::lock::Mutex wakes its waiters in turn (a fair lock): a caller that
\* can take the gatekeeper lock again and again does take it; a caller that
\* holds it goes on to the end of gatekeep
FairGate ==
    \A c \in Callers :
        /\ SF_vars(LockInner(c))
        /\ WF_vars(GatekeepCheck(c))
        /\ WF_vars(LockWrite(c))
        /\ WF_vars(Apply(c))

SpecGateLive == SpecGate /\ FairGate

SpecTwoGate == Init /\ [][NextTwoGate]_vars

\* the spawned task of start_loop is scheduled as long as it can run
FairLoop == WF_vars(LoopReceive) /\ WF_vars(LoopSend)

SpecActorLive == SpecActor /\ FairLoop

SpecHandle == Init /\ [][NextHandle]_vars

SpecAuthored == Init /\ [][NextAuthored]_vars

SpecDht == Init /\ [][NextDht]_vars

SpecWorkspace == Init /\ [][NextWorkspace]_vars

SpecIter == Init /\ [][NextIter]_vars

SpecRw == Init /\ [][NextRw]_vars

\* call_zome has no await after `cell.call_zome(invocation).await`: once that
\* resolves the task runs on to the return
SpecRwLive == SpecRw /\ \A t \in Handles : WF_vars(RwReturnRead(t))

\* ================================================================ claims

\* ---- the gatekeeper (SpecGate)
Last(seq) == seq[Len(seq)]

\* seq[from..] links onto seq[from - 1] and onwards, one sequence number at a time
LinkedFrom(chain, from) ==
    \A i \in from..Len(chain) :
        /\ i > 1
        /\ chain[i].prev_header = Some(HashOf(chain[i - 1]))
        /\ chain[i].header_seq = chain[i - 1].header_seq + 1

IsPrefix(a, b) == Len(a) <= Len(b) /\ \A i \in 1..Len(a) : a[i] = b[i]

Finished(c) == gpc[c] = "done"

\* C1: a call whose valid_at equals the root gatekeep reads returns Ok without
\* a rebase, applies the bundle as submitted exactly once, and the root after
\* the apply is the address of the bundle's last header, whatever rebasable is
C1_NoConflictPath ==
    \A c \in Callers :
        (Finished(c) /\ as_at[c] = chain_root_hash[c]) =>
            /\ gresult[c] = "Ok"
            /\ ghist[c].rebased = 0
            /\ ghist[c].applied = 1
            /\ ghist[c].db_at_return = ghist[c].db_at_read \o ghist[c].submitted
            /\ get_source_chain_root_hash(ghist[c].db_at_return)
                    = HashOf(Last(ghist[c].submitted))

C1_Witness ==
    \E c \in Callers, d \in Callers :
        /\ Finished(c) /\ as_at[c] = chain_root_hash[c] /\ rebasable[c] /\ gresult[c] = "Ok"
        /\ Finished(d) /\ as_at[d] = chain_root_hash[d] /\ ~rebasable[d] /\ gresult[d] = "Ok"

\* C2: a call that may not be rebased and whose valid_at differs from the root
\* returns HeadMoved, never takes the write handle, never applies, and leaves
\* the durable chain as it was
C2_HeadMovedLeavesDurableState ==
    \A c \in Callers :
        (Finished(c) /\ ~rebasable[c] /\ as_at[c] # chain_root_hash[c]) =>
            /\ gresult[c] = "HeadMoved"
            /\ ~ghist[c].write_handle
            /\ ghist[c].applied = 0
            /\ ghist[c].db_at_return = ghist[c].db_at_read
            /\ get_source_chain_root_hash(ghist[c].db_at_return) = chain_root_hash[c]

C2_Witness ==
    \E c \in Callers :
        Finished(c) /\ ~rebasable[c] /\ as_at[c] # chain_root_hash[c]
            /\ gresult[c] = "HeadMoved"

\* C3: a rebasable call whose valid_at differs from the root has its bundle
\* rebased from valid_at onto the root: after the apply the first new header
\* links to the previous head and the new headers continue the chain without
\* a gap or a duplicate sequence number
C3_RebasedOntoCurrentHead ==
    \A c \in Callers :
        (Finished(c) /\ rebasable[c] /\ as_at[c] # chain_root_hash[c]) =>
            LET before == ghist[c].db_at_read
                after == ghist[c].db_at_return
            IN  /\ gresult[c] = "Ok"
                /\ Len(after) = Len(before) + Len(ghist[c].submitted)
                /\ after[Len(before) + 1].prev_header = Some(chain_root_hash[c])
                /\ LinkedFrom(after, Len(before) + 1)

\* C4: two rebasable calls prepared against the same root both return Ok, both
\* bundles are applied, and the bundle applied second continues the chain
\* that holds the first
C4_NoLostUpdate ==
    \A c \in Callers, d \in Callers :
        (/\ c # d
         /\ Finished(c) /\ Finished(d)
         /\ rebasable[c] /\ rebasable[d]
         /\ as_at[c] = as_at[d]
         /\ Len(ghist[c].db_at_read) <= Len(ghist[d].db_at_read)) =>
            /\ gresult[c] = "Ok" /\ gresult[d] = "Ok"
            /\ ghist[c].applied = 1 /\ ghist[d].applied = 1
            /\ IsPrefix(ghist[c].db_at_return, ghist[d].db_at_read)
            /\ LinkedFrom(ghist[d].db_at_return, Len(ghist[c].db_at_read) + 1)

\* C15: with one handle for the database, any number of concurrent callers
\* and no other writer of the root, whenever gatekeep holds the write handle
\* the root read through it is the root gatekeep read at its start: the
\* assertion holds and no call ends in a panic
C15_AssertionHolds ==
    \A c \in Callers :
        /\ gpc[c] = "apply" =>
            /\ db_write = c
            /\ inner = c
            /\ get_source_chain_root_hash(db) = chain_root_hash[c]
        /\ ghist[c].assert_ok
        /\ gresult[c] # "panic"

\* a caller holds the write handle while another caller's call, prepared
\* against the same root, waits for the gatekeeper
C15_Witness ==
    \E c \in Callers, d \in Callers :
        /\ gpc[c] = "apply"
        /\ gpc[d] = "ready"
        /\ as_at[c] = as_at[d]
        /\ inner = c

\* C19: within one try_append_chain call only the apply step changes the
\* durable chain, and it runs at most once: the root read, the comparison, the
\* rebase (which rewrites the caller's own bundle only) and the lock
\* acquisitions leave it as it was; once HeadMoved is decided the call has
\* ended: no further read of the root, no rebase, no write handle, no apply
C19_OnlyApplyWrites ==
    [][/\ db' # db =>
            \E c \in Callers :
                /\ gpc[c] = "apply" /\ gpc'[c] = "done"
                /\ db' = db \o next_write[c]
                /\ ghist[c].applied = 0 /\ ghist'[c].applied = 1
       /\ \A c \in Callers :
            /\ ghist'[c].applied <= 1
            /\ next_write'[c] # next_write[c] => gpc[c] \in {"idle", "gatekeep"}
            /\ (gpc[c] = "gatekeep" /\ gpc'[c] = "done") =>
                    /\ gresult'[c] = "HeadMoved"
                    /\ next_write'[c] = next_write[c]
                    /\ ghist'[c].applied = 0 /\ ghist'[c].rebased = 0
                    /\ ~ghist'[c].write_handle
            /\ (gpc[c] = "done" /\ gresult[c] = "HeadMoved") =>
                    /\ gpc'[c] \in {"done", "idle"}
                    /\ chain_root_hash'[c] = chain_root_hash[c]
                    /\ next_write'[c] = next_write[c]
                    /\ ghist'[c] = ghist[c]]_vars

\* a call that was rebased and applied once, on a chain an earlier call extended
C19_Witness ==
    \E c \in Callers :
        /\ Finished(c) /\ gresult[c] = "Ok"
        /\ ghist[c].rebased = 1 /\ ghist[c].applied = 1 /\ ghist[c].write_handle
        /\ db = ghist[c].db_at_return
        /\ Len(db) = Len(GenesisChain) + 2

\* C33: a try_append_chain call with rebasable = true never returns HeadMoved;
\* HeadMoved is returned if and only if rebasable is false and valid_at
\* differs from the authoritative root that gatekeep reads.
C33_HeadMovedIffStaleAndFixed ==
    \A c \in Callers :
        Finished(c) =>
            /\ gresult[c] \in {"Ok", "HeadMoved"}
            /\ gresult[c] = "HeadMoved" <=>
                    (/\ ~rebasable[c]
                     /\ as_at[c] # get_source_chain_root_hash(ghist[c].db_at_read))
            /\ rebasable[c] => gresult[c] = "Ok"

\* a rebasable call on a moved root has returned Ok while a call that may not
\* be rebased was refused
C33_Witness ==
    \E c \in Callers : \E d \in Callers :
        /\ Finished(c)
        /\ rebasable[c]
        /\ as_at[c] # get_source_chain_root_hash(ghist[c].db_at_read)
        /\ gresult[c] = "Ok"
        /\ Finished(d)
        /\ gresult[d] = "HeadMoved"

\* ---- one gatekeeper per caller on one database (SpecTwoGate)

\* the durable chain the call of c found when it held the write handle
ChainAtApply(c) ==
    IF ghist[c].applied = 1
    THEN SubSeq(ghist[c].db_at_return, 1,
                Len(ghist[c].db_at_return) - Len(next_write[c]))
    ELSE ghist[c].db_at_return

\* C35: with one gatekeeper per caller on the same database, the assertion
\* comparing the two root reads of a call fails exactly when the durable chain
\* changed between the call's root check and its apply; the call then either
\* panics with nothing written, or (assertions disabled) returns Ok with its
\* bundle appended although the bundle does not link onto the root it was
\* appended to; a bundle passed without rebase whose call saw no such change
\* links onto the root it was appended to
C35_RootChangesUnderTwoGatekeepers ==
    \A c \in Callers :
        (Finished(c) /\ gresult[c] \in {"Ok", "panic"}) =>
            /\ ghist[c].assert_ok <=> ChainAtApply(c) = ghist[c].db_at_read
            /\ (ghist[c].assert_ok /\ ghist[c].rebased = 0) =>
                   next_write[c][1].prev_header =
                       Some(get_source_chain_root_hash(ChainAtApply(c)))
            /\ ~ghist[c].assert_ok =>
                \/ /\ gresult[c] = "panic"
                   /\ ghist[c].applied = 0
                \/ /\ gresult[c] = "Ok"
                   /\ ghist[c].applied = 1
                   /\ ghist[c].db_at_return = ChainAtApply(c) \o next_write[c]
                   /\ next_write[c][1].prev_header #
                          Some(get_source_chain_root_hash(ChainAtApply(c)))

\* two calls, one per handle, prepared against the same root: the call of d
\* was applied between the root check of c and its apply, and the bundle of c,
\* never rebased, was appended behind it
C35_Witness ==
    \E c \in Callers : \E d \in Callers :
        /\ c # d
        /\ Finished(c)
        /\ Finished(d)
        /\ gresult[d] = "Ok"
        /\ ghist[d].assert_ok
        /\ as_at[c] = as_at[d]
        /\ gresult[c] = "Ok"
        /\ ~ghist[c].assert_ok
        /\ ghist[c].rebased = 0
        /\ as_at[c] = get_source_chain_root_hash(ghist[c].db_at_read)
        /\ as_at[c] # get_source_chain_root_hash(ChainAtApply(c))

\* ---- the source chain buffer (SpecChain)
header_at(buf, i) == get_at_index(buf, i)[1].signed_header.header

Contiguous(buf) ==
    \A i \in 1..(len(buf) - 1) :
        /\ get_at_index(buf, i) # None
        /\ get_at_index(buf, i - 1) # None
        /\ header_at(buf, i).prev_header = Some(HashOf(header_at(buf, i - 1)))
        /\ header_at(buf, i).header_seq = i

\* C9 as stated: every chain reached by put_raw, genesis and flush calls is
\* contiguous
C9_ContiguousAfterAnyCalls == Contiguous(sc) /\ Contiguous(sc_db)

\* C9 amended: the chain is contiguous as long as genesis ran on an empty chain
\* and every header handed to put_raw carried the chain head as prev_header and
\* the chain length as header_seq
C9_ContiguousWhenLinked == sc_hist.linked => (Contiguous(sc) /\ Contiguous(sc_db))

C9_Witness ==
    /\ sc_hist.linked
    /\ sc_hist.op = "flush"
    /\ len(sc_db) = 5
    /\ header_at(sc_db, 0).kind = "Dna"
    /\ header_at(sc_db, 4).kind = "Create"

\* C10: a successful genesis on an empty chain leaves exactly the elements
\* Dna, AgentValidationPkg, Create(AgentPubKey) with the Agent entry, numbered
\* 0, 1, 2 and each linked to the one before; and has_genesis() is true exactly
\* when three or more elements have been appended
C10_GenesisShape ==
    /\ (sc_hist.op = "genesis" /\ sc_hist.ok /\ sc_hist.len_before = 0) =>
        /\ len(sc) = 3
        /\ Cardinality(sc.elements) = 3
        /\ \A i \in 0..2 : get_at_index(sc, i) # None /\ header_at(sc, i).header_seq = i
        /\ header_at(sc, 0).kind = "Dna"
        /\ header_at(sc, 0).prev_header = None
        /\ get_at_index(sc, 0)[1].entry = None
        /\ header_at(sc, 1).kind = "AgentValidationPkg"
        /\ header_at(sc, 1).prev_header = Some(sc.sequence[1])
        /\ get_at_index(sc, 1)[1].entry = None
        /\ header_at(sc, 2).kind = "Create"
        /\ header_at(sc, 2).payload[1] = "AgentPubKey"
        /\ header_at(sc, 2).prev_header = Some(sc.sequence[2])
        /\ get_at_index(sc, 2)[1].entry = Some(AgentEntry(header_at(sc, 2).author))
        /\ \A i \in 0..2 : sc.sequence[i + 1] = HashOf(header_at(sc, i))
    /\ has_genesis(sc) <=> (sc_hist.puts >= 3)
    /\ len(sc) = sc_hist.puts

C10_Witness ==
    sc_hist.op = "genesis" /\ sc_hist.ok /\ sc_hist.len_before = 0 /\ has_genesis(sc)

\* C11: when put_raw returns an address A then, before any flush, get_element(A)
\* and get_header(A) on the same buffer give Some with the header that was put
\* (and the entry that was supplied), and the returned header hashes to A; every
\* address the sequence index holds is answered the same way
C11_ReadYourWrites ==
    /\ (sc_hist.op = "put_raw" /\ sc_hist.ok) =>
        /\ sc_hist.address # None
        /\ LET A == sc_hist.address[1]
           IN  /\ chain_head(sc) = Some(A)
               /\ get_element(sc, A) # None
               /\ get_element(sc, A)[1].signed_header.header = sc_hist.header[1]
               /\ get_element(sc, A)[1].entry = sc_hist.entry
               /\ get_header(sc, A) # None
               /\ get_header(sc, A)[1].header = sc_hist.header[1]
               /\ HashOf(get_header(sc, A)[1].header) = A
               /\ get_header(sc, A)[1] = get_element(sc, A)[1].signed_header
    /\ (sc_hist.op = "put_raw" /\ ~sc_hist.ok) => (sc_hist.address = None /\ len(sc) = sc_hist.len_before)
    /\ \A i \in 1..len(sc) :
        /\ get_element(sc, sc.sequence[i]) # None
        /\ HashOf(get_element(sc, sc.sequence[i])[1].signed_header.header) = sc.sequence[i]

\* a Create header with its entry was put and is read back while the
\* environment does not hold it yet
C11_Witness ==
    /\ sc_hist.op = "put_raw" /\ sc_hist.ok
    /\ sc_hist.header[1].kind = "Create"
    /\ sc_hist.entry = Some(AppEntry("post"))
    /\ get_element(sc, sc_hist.address[1]) # None
    /\ get_element(sc_db, sc_hist.address[1]) = None
    /\ len(sc_db) = 3

\* the i-th item of iter_back is the header at index N - i
YieldsChainBackwards(buf) ==
    LET items == iter_back(buf)
        N == len(buf)
    IN  /\ Len(items) = N
        /\ \A i \in 1..N : HashOf(items[i].header) = buf.sequence[N - i + 1]
        /\ \A i \in 1..(N - 1) :
            /\ items[i].header.prev_header = Some(HashOf(items[i + 1].header))
            /\ items[i].header.header_seq > items[i + 1].header.header_seq
        /\ N > 0 => (chain_head(buf) = Some(HashOf(items[1].header))
                        /\ items[N].header.prev_header = None)

\* C12 as stated: on every chain of N elements iter_back yields N signed
\* headers from the head backwards, each the prev_header of the one before,
\* and ends after the genesis Dna header
C12_IterBackYieldsAll ==
    /\ YieldsChainBackwards(sc)
    /\ YieldsChainBackwards(sc_db)
    /\ (len(sc) > 0 /\ header_at(sc, 0).kind = "Dna") =>
            iter_back(sc)[Len(iter_back(sc))].header = header_at(sc, 0)

\* C12 amended: on a chain whose appended headers each carried the chain head
\* as prev_header and the chain length as header_seq, iter_back yields N signed
\* headers from the head backwards, each the prev_header of the one before,
\* and ends after the header at index 0, which is the Dna header when the
\* chain began with one
C12_IterBackOnLinkedChain ==
    sc_hist.linked =>
        /\ YieldsChainBackwards(sc)
        /\ YieldsChainBackwards(sc_db)
        /\ len(sc) > 0 =>
            /\ iter_back(sc)[len(sc)].header = header_at(sc, 0)
            /\ header_at(sc, 0).header_seq = 0

C12_Witness ==
    /\ sc_hist.linked
    /\ len(sc) = 5
    /\ len(sc_db) = 3
    /\ Len(iter_back(sc)) = 5
    /\ Len(iter_back(sc_db)) = 3
    /\ iter_back(sc)[5].header.kind = "Dna"
    /\ iter_back(sc)[1].header.kind = "Create"

C31_FailedSignLeavesBuffer ==
    [][(sc_hist'.op = "put_raw" /\ ~CanSign(sc_hist'.header[1].author)) =>
            /\ ~sc_hist'.ok
            /\ sc_hist'.address = None
            /\ len(sc') = len(sc)
            /\ chain_head(sc') = chain_head(sc)
            /\ sc'.sequence = sc.sequence
            /\ sc'.elements = sc.elements
            /\ sc_db' = sc_db]_vars

\* a put_raw that failed on a buffer holding elements
C31_Witness ==
    /\ sc_hist.op = "put_raw"
    /\ ~sc_hist.ok
    /\ ~CanSign(sc_hist.header[1].author)
    /\ len(sc) >= 2
    /\ len(sc) = sc_hist.len_before

EntryAtTwo(buf) ==
    IF get_at_index(buf, 2) = None THEN None ELSE get_at_index(buf, 2)[1].entry

\* C39: has_initialized() implies has_genesis() and holds exactly when the
\* chain has more than three elements, so not yet for a chain of the three
\* genesis elements alone; agent_pubkey() is Ok(None) exactly when the chain
\* has fewer than 3 elements, Ok(Some(key)) exactly when has_genesis() holds
\* and the element at index 2 carries the Agent entry of key, and an
\* InvalidStructure error when that element has no entry (GenesisDataMissing)
\* or an entry of another type (MalformedGenesisData)
C39_InitFlags ==
    /\ has_initialized(sc) => has_genesis(sc)
    /\ has_initialized(sc) <=> len(sc) > 3
    /\ SourceChainBuf_agent_pubkey(sc) = [tag |-> "Ok", value |-> None] <=> len(sc) < 3
    /\ \A key \in Agents :
          SourceChainBuf_agent_pubkey(sc) = [tag |-> "Ok", value |-> Some(key)]
              <=> (has_genesis(sc) /\ EntryAtTwo(sc) = Some(AgentEntry(key)))
    /\ (has_genesis(sc) /\ EntryAtTwo(sc) = None) =>
          SourceChainBuf_agent_pubkey(sc) =
              [tag |-> "Err", value |-> <<"InvalidStructure", "GenesisDataMissing">>]
    /\ (has_genesis(sc) /\ EntryAtTwo(sc) # None
            /\ EntryAtTwo(sc)[1].entry_type # "Agent") =>
          SourceChainBuf_agent_pubkey(sc) =
              [tag |-> "Err", value |-> <<"InvalidStructure", "MalformedGenesisData">>]
    /\ SourceChainBuf_agent_pubkey(sc).tag = "Ok" =>
          SourceChainBuf_agent_pubkey(sc).value \in {None} \cup {Some(key) : key \in Agents}

\* genesis has just put its three elements: the chain has its genesis and the
\* agent's key, and is not reported initialized
C39_Witness ==
    /\ sc_hist.op = "genesis"
    /\ sc_hist.ok
    /\ len(sc) = 3
    /\ has_genesis(sc)
    /\ ~has_initialized(sc)
    /\ SourceChainBuf_agent_pubkey(sc) = [tag |-> "Ok", value |-> Some("alice")]

\* C39 as stated: a chain that holds the three genesis elements is reported
\* initialized
C39_InitializedAtGenesis == has_genesis(sc) => has_initialized(sc)

\* ---- call_zome_workflow (SpecZome)
NewIndices == chain_head_start_len..(len(ws) - 1)

Returned == wf_pc = "returned"

\* the element at index i of the workspace is in the environment's sequence
\* index and element store
Durable(i) ==
    /\ \E j \in 1..Len(zenv.sequence) : zenv.sequence[j] = ws.sequence[i + 1]
    /\ get_element(zenv, ws.sequence[i + 1]) # None

SysValidated(i) ==
    \E j \in 1..Len(zhist.sys_calls) : zhist.sys_calls[j] = [i |-> i, outcome |-> "Valid"]

\* exempt by its kind, or accepted by its callback
AppValidated(i) ==
    \/ validation_callback(header_at(ws, i).kind) = "exempt"
    \/ \E j \in 1..Len(zhist.app_calls) :
        /\ zhist.app_calls[j].k = i - chain_head_start_len + 1
        /\ zhist.app_calls[j].outcome = "Accepted"

AllCommitted == \A i \in NewIndices : Durable(i) /\ SysValidated(i) /\ AppValidated(i)

NoneCommitted == \A i \in NewIndices : ~Durable(i)

\* C5 as stated: the call reports success and every new element is validated
\* and durable, or it reports failure (a workflow error, or the error the
\* application code returned) and no new element is durable
C5_AtomicOutcome ==
    Returned =>
        \/ (wresult = "Ok" /\ zresult = "Ok" /\ AllCommitted)
        \/ (~(wresult = "Ok" /\ zresult = "Ok") /\ NoneCommitted)

\* C5 amended: the workflow returns Ok, carrying whatever the application code
\* returned, and every new element is validated and durable; or it returns a
\* workflow error and no new element is durable
C5_AtomicWorkflowOutcome ==
    Returned =>
        \/ (wresult = "Ok" /\ AllCommitted)
        \/ (wresult # "Ok" /\ NoneCommitted)

C5_Witness ==
    /\ Returned /\ wresult = "Ok" /\ zresult = "Err"
    /\ Cardinality(NewIndices) = 2
    /\ AllCommitted

\* C6: once a callback rejects the k-th new element, no later element is
\* application-validated, nothing is flushed and no new element is durable
C6_RejectShortCircuit ==
    \A j \in 1..Len(zhist.app_calls) :
        zhist.app_calls[j].outcome = "Rejected" =>
            /\ j = Len(zhist.app_calls)
            /\ app_k = zhist.app_calls[j].k
            /\ Returned
            /\ wresult \in {"InvalidCommit", "InvalidLink"}
            /\ zhist.flushes = 0
            /\ NoneCommitted

C6_Witness ==
    /\ Len(zhist.app_calls) = 2
    /\ zhist.app_calls[2].outcome = "Rejected"
    /\ zhist.app_calls[2].k = 2
    /\ Len(to_app_validate) = 3

\* C7: AwaitingDeps from a link callback or from the direct callback ends the
\* call with an error at once: the element is not validated again, nothing is
\* flushed, the trigger is not fired
C7_AwaitingDepsIsFatal ==
    \A j \in 1..Len(zhist.app_calls) :
        zhist.app_calls[j].outcome = "AwaitingDeps" =>
            /\ j = Len(zhist.app_calls)
            /\ \A h \in 1..Len(zhist.app_calls) :
                    zhist.app_calls[h].k = zhist.app_calls[j].k => h = j
            /\ Returned
            /\ wresult = "InvalidCommit"
            /\ zhist.flushes = 0
            /\ zhist.triggers = 0
            /\ NoneCommitted

C7_Witness ==
    /\ Len(zhist.app_calls) = 2
    /\ zhist.app_calls[2].outcome = "AwaitingDeps"
    /\ zhist.app_calls[2].callback = "create_link"
    /\ Len(to_app_validate) = 3

SysAborted(j) ==
    /\ j = Len(zhist.sys_calls)
    /\ zhist.app_calls = <<>>
    /\ zhist.lookups = <<>>
    /\ Returned
    /\ zhist.flushes = 0
    /\ zhist.triggers = 0
    /\ NoneCommitted

\* C8 as stated: a system validation that fails or errors aborts the call at
\* that element with an invalid-commit error
C8_SysFailureIsInvalidCommit ==
    \A j \in 1..Len(zhist.sys_calls) :
        zhist.sys_calls[j].outcome # "Valid" => (SysAborted(j) /\ wresult = "InvalidCommit")

\* C8 amended: a failed system validation aborts the call at that element with
\* an invalid-commit error, an errored one with the error itself; either way
\* no later element is system-validated, none is application-validated,
\* nothing is flushed and the trigger is not fired
C8_SysFailureAborts ==
    \A j \in 1..Len(zhist.sys_calls) :
        /\ zhist.sys_calls[j].outcome = "Invalid" =>
                (SysAborted(j) /\ wresult = "InvalidCommit")
        /\ zhist.sys_calls[j].outcome = "Error" =>
                (SysAborted(j) /\ wresult = "SysValidationError")

C8_Witness ==
    /\ Len(zhist.sys_calls) = 2
    /\ zhist.sys_calls[2].outcome = "Invalid"
    /\ Cardinality(NewIndices) = 3

\* C17: the produce-DHT-ops trigger is fired at most once per call and only
\* after the flush has committed; never after a failed validation or a failed
\* flush; and whether or not the signal is received, the call returns Ok and
\* the committed elements stay in the environment
C17_TriggerAfterCommit ==
    /\ zhist.triggers <= 1
    /\ zhist.triggers = 1 =>
        /\ zhist.flushes = 1
        /\ Returned
        /\ wresult = "Ok"
        /\ zenv = flush_to_txn_ref(zhist.env_before, ws)
        /\ AllCommitted
    /\ wf_pc = "trigger" => (zhist.flushes = 1 /\ zhist.triggers = 0)
    /\ (Returned /\ wresult # "Ok") => zhist.triggers = 0
    /\ (Returned /\ wresult = "Ok") => zhist.triggers = 1
    /\ (\E j \in 1..Len(zhist.sys_calls) : zhist.sys_calls[j].outcome # "Valid")
            => zhist.triggers = 0
    /\ (\E j \in 1..Len(zhist.app_calls) : zhist.app_calls[j].outcome # "Accepted")
            => zhist.triggers = 0
    /\ zhist.signal_received => zhist.triggers = 1

\* the trigger was fired after a commit of two elements and the signal was
\* not received
C17_Witness ==
    /\ Returned /\ wresult = "Ok"
    /\ zhist.triggers = 1 /\ ~zhist.signal_received
    /\ zhist.flushes = 1
    /\ Cardinality(NewIndices) = 2
    /\ AllCommitted

\* C18: a call that appends one Create element on the three-element genesis
\* chain and passes validation leaves a durable chain of length 4 whose new
\* element links to the head seen before the call and is the new head, and
\* get_entry on the committed entry hash gives the committed content
C18_OneCreateOnGenesis ==
    (/\ Returned /\ wresult = "Ok"
     /\ len(zhist.env_before) = 3
     /\ NewIndices = {3}
     /\ header_at(ws, 3).kind = "Create") =>
        /\ len(zenv) = 4
        /\ get_at_index(zenv, 3) # None
        /\ header_at(zenv, 3) = header_at(ws, 3)
        /\ header_at(zenv, 3).prev_header = chain_head(zhist.env_before)
        /\ header_at(zenv, 3).header_seq = 3
        /\ chain_head(zenv) = Some(HashOf(header_at(zenv, 3)))
        /\ get_entry(zenv, header_at(zenv, 3).payload[2]) = Some(AppEntry("post"))
        /\ get_at_index(zenv, 3)[1].entry = Some(AppEntry("post"))
        /\ \A i \in 0..2 : get_at_index(zenv, i) = get_at_index(zhist.env_before, i)

C18_Witness ==
    /\ Returned /\ wresult = "Ok" /\ zresult = "Ok"
    /\ zhist.env_before = GenesisBuf
    /\ NewIndices = {3}
    /\ header_at(ws, 3).kind = "Create"
    /\ len(zenv) = 4
    /\ get_entry(zhist.env_before, EntryHashOf(AppEntry("post"))) = None

\* C20: a call abandoned before the commit step has no durable effect: in
\* every state before the flush begins, and after a call that was cancelled
\* or failed, the environment is what it was when the call started, whatever
\* the application code appended to the workspace
C20_NoDurableEffectBeforeCommit ==
    /\ wf_pc \in {"start", "call", "sys", "app", "commit"} =>
        (zenv = zhist.env_before /\ zhist.flushes = 0)
    /\ (Returned /\ wresult # "Ok") =>
        (zenv = zhist.env_before /\ zhist.flushes = 0 /\ NoneCommitted)

\* a call cancelled after its two new elements passed system validation
C20_Witness ==
    /\ Returned /\ wresult = "Cancelled"
    /\ Cardinality(NewIndices) = 2
    /\ Len(to_app_validate) = 2
    /\ len(ws) = len(zenv) + 2
    /\ zenv = zhist.env_before

ExpectedPayload(call) ==
    IF call.outcome = "Rejected" THEN Some(call.detail)
    ELSE Some(DebugFmt(<<call.detail>>))

\* C21 as stated: every Rejected or AwaitingDeps outcome, from a link callback
\* or from the direct callback, ends the call with the invalid-commit error
\* carrying the reason or the missing hashes
C21_FailureIsInvalidCommit ==
    \A j \in 1..Len(zhist.app_calls) :
        zhist.app_calls[j].outcome \in {"Rejected", "AwaitingDeps"} =>
            /\ Returned
            /\ wresult = "InvalidCommit"
            /\ zhist.error_payload = ExpectedPayload(zhist.app_calls[j])

\* C21 amended: a Rejected outcome of the create-link or delete-link callback
\* ends the call with the invalid-link error carrying the reason; a Rejected
\* outcome of the direct callback with the invalid-commit error carrying the
\* reason; AwaitingDeps from any callback with the invalid-commit error
\* carrying the rendering of the missing hashes
C21_FailureIsTypedError ==
    \A j \in 1..Len(zhist.app_calls) :
        zhist.app_calls[j].outcome \in {"Rejected", "AwaitingDeps"} =>
            /\ Returned
            /\ wresult = IF /\ zhist.app_calls[j].outcome = "Rejected"
                            /\ zhist.app_calls[j].callback \in {"create_link", "delete_link"}
                         THEN "InvalidLink" ELSE "InvalidCommit"
            /\ zhist.error_payload = ExpectedPayload(zhist.app_calls[j])
            /\ zhist.flushes = 0

\* the delete-link callback rejected the second new element with reason d2
C21_Witness ==
    /\ Len(zhist.app_calls) = 2
    /\ zhist.app_calls[2].outcome = "Rejected"
    /\ zhist.app_calls[2].callback = "delete_link"
    /\ zhist.app_calls[2].detail = "d2"
    /\ wresult = "InvalidLink"
    /\ zhist.error_payload = Some("d2")

\* the call is past the application code, which appended no element
NothingAppended == wf_pc \notin {"start", "call"} /\ len(ws) = chain_head_start_len

\* C27: a zome call whose application code appends no element is valid: no
\* system validation and no application-validation callback is invoked; the
\* workflow goes on to the commit step, fires the trigger and returns the
\* application's response (unless the write transaction fails or the caller
\* drops the call).
C27_EmptyCallCommits ==
    NothingAppended =>
        /\ zhist.sys_calls = <<>>
        /\ zhist.app_calls = <<>>
        /\ zhist.lookups = <<>>
        /\ to_app_validate = <<>>
        /\ Returned =>
            \/ /\ wresult = "Ok"
               /\ zresult \in {"Ok", "Err"}
               /\ zhist.flushes = 1
               /\ zhist.triggers = 1
               /\ zenv = zhist.env_before
            \/ /\ wresult = "FlushError"
               /\ zhist.flushes = 0
               /\ zhist.triggers = 0
            \/ wresult = "Cancelled"

C27_Witness ==
    /\ NothingAppended
    /\ Returned
    /\ wresult = "Ok"
    /\ zhist.flushes = 1
    /\ zhist.triggers = 1

ExemptKinds == {"Dna", "AgentValidationPkg", "OpenChain", "CloseChain", "InitZomesComplete"}

\* the header kind of the k-th element handed to application validation
KindOf(k) == to_app_validate[k].signed_header.header.kind

\* the call failed in the application-validation phase
AppPhaseFailed ==
    /\ Returned
    /\ wresult \in {"InvalidCommit", "InvalidLink", "RibosomeError", "ElementDeps",
                    "CascadeError"}
    /\ Len(zhist.sys_calls) = len(ws) - chain_head_start_len
    /\ \A j \in 1..Len(zhist.sys_calls) : zhist.sys_calls[j].outcome = "Valid"

\* C28: application validation invokes no callback (and no lookup) for a new
\* element of kind Dna, AgentValidationPkg, OpenChain, CloseChain or
\* InitZomesComplete, and such an element never makes the call fail in the
\* application-validation phase; CreateLink goes to the create-link callback,
\* DeleteLink to the delete-link callback, Create, Update and Delete to the
\* general entry-validation callback.
C28_CallbackByKind ==
    /\ \A j \in 1..Len(zhist.app_calls) :
        LET call == zhist.app_calls[j]
        IN  /\ call.k \in 1..Len(to_app_validate)
            /\ KindOf(call.k) \notin ExemptKinds
            /\ KindOf(call.k) = "CreateLink" <=> call.callback = "create_link"
            /\ KindOf(call.k) = "DeleteLink" <=> call.callback = "delete_link"
            /\ KindOf(call.k) \in {"Create", "Update", "Delete"} <=> call.callback = "direct"
    /\ \A j \in 1..Len(zhist.lookups) :
        /\ zhist.lookups[j].k \in 1..Len(to_app_validate)
        /\ KindOf(zhist.lookups[j].k) = "CreateLink"
    /\ AppPhaseFailed =>
        /\ app_k \in 1..Len(to_app_validate)
        /\ KindOf(app_k) \notin ExemptKinds
    /\ \A k \in 1..Len(to_app_validate) :
        (k < app_k /\ KindOf(k) \notin ExemptKinds)
            => \E j \in 1..Len(zhist.app_calls) : zhist.app_calls[j].k = k

\* a call that succeeded with an exempt element, a CreateLink and a Create
\* among its new elements
C28_Witness ==
    /\ Returned
    /\ wresult = "Ok"
    /\ \E k \in 1..Len(to_app_validate) : KindOf(k) \in ExemptKinds
    /\ \E j \in 1..Len(zhist.app_calls) : zhist.app_calls[j].callback = "create_link"
    /\ \E j \in 1..Len(zhist.app_calls) : zhist.app_calls[j].callback = "direct"

\* C29: exactly the elements at the sequence indices from the length before
\* the application ran up to the length after it are validated; each is
\* system-validated at most once and application-validated at most once; both
\* phases go in increasing sequence order; every new element is
\* system-validated before the application validation of any starts.
C29_ValidationOrder ==
    wf_pc # "start" =>
        /\ \A j \in 1..Len(zhist.sys_calls) :
            /\ zhist.sys_calls[j].i = chain_head_start_len + j - 1
            /\ zhist.sys_calls[j].i < len(ws)
        /\ Len(to_app_validate) <= Len(zhist.sys_calls)
        /\ \A k \in 1..Len(to_app_validate) :
            /\ zhist.sys_calls[k].outcome = "Valid"
            /\ HashOf(to_app_validate[k].signed_header.header)
                    = ws.sequence[chain_head_start_len + k]
        /\ \A j \in 1..Len(zhist.app_calls) :
            /\ zhist.app_calls[j].k \in 1..Len(to_app_validate)
            /\ j > 1 => zhist.app_calls[j - 1].k < zhist.app_calls[j].k
        /\ \A j \in 1..Len(zhist.lookups) :
            j > 1 => zhist.lookups[j - 1].k < zhist.lookups[j].k
        /\ (zhist.app_calls # <<>> \/ zhist.lookups # <<>>
                \/ wf_pc \in {"app", "commit", "trigger"} \/ wresult = "Ok") =>
            /\ Len(zhist.sys_calls) = len(ws) - chain_head_start_len
            /\ Len(to_app_validate) = len(ws) - chain_head_start_len
            /\ \A j \in 1..Len(zhist.sys_calls) : zhist.sys_calls[j].outcome = "Valid"

\* a call with three new elements, all validated by a callback
C29_Witness ==
    /\ Returned
    /\ wresult = "Ok"
    /\ len(ws) - chain_head_start_len = 3
    /\ Len(zhist.sys_calls) = 3
    /\ Len(zhist.app_calls) = 3

\* the call ended on a lookup of its CreateLink element that gave no entry
LookupFailed ==
    /\ zhist.lookups # <<>>
    /\ \E n \in 1..Len(Last(zhist.lookups).found) : Last(zhist.lookups).found[n] # "Some"

\* the address the last lookup asked for
LastLookedUp ==
    IF Len(Last(zhist.lookups).looked_up) = 1 THEN "base_address" ELSE "target_address"

\* what holds of every CreateLink lookup: the base first, the target only
\* after the base was found, and after a lookup that gave no entry no
\* callback for the element, no later validation, nothing committed
LookupsInOrder ==
    /\ \A j \in 1..Len(zhist.lookups) :
        LET l == zhist.lookups[j]
        IN  /\ l.looked_up \in {<<"base">>, <<"base", "target">>}
            /\ Len(l.found) = Len(l.looked_up)
            /\ Len(l.looked_up) = 2 => l.found[1] = "Some"
            /\ (\E n \in 1..Len(l.found) : l.found[n] # "Some") => j = Len(zhist.lookups)
    /\ LookupFailed =>
        /\ Returned
        /\ app_k = Last(zhist.lookups).k
        /\ \A j \in 1..Len(zhist.app_calls) : zhist.app_calls[j].k < app_k
        /\ zhist.flushes = 0
        /\ zhist.triggers = 0
        /\ NoneCommitted
        /\ zenv = zhist.env_before

\* C30 as stated: for a new CreateLink element the base is looked up before
\* the target; if either lookup returns nothing or errors, the create-link
\* callback is not invoked, the workflow fails with an element-dependency
\* error naming the missing address, and nothing is committed
C30_LookupFailureIsElementDeps ==
    /\ LookupsInOrder
    /\ LookupFailed =>
        /\ wresult = "ElementDeps"
        /\ zhist.error_payload = Some(LastLookedUp)

\* C30, amended: a lookup that returns nothing fails the workflow with the
\* element-dependency error naming the address looked up; a lookup that
\* errors fails it with the cascade's own error; in both cases the callback
\* is not invoked and nothing is committed
C30_LookupFailureByKind ==
    /\ LookupsInOrder
    /\ LookupFailed =>
        LET l == Last(zhist.lookups)
        IN  /\ l.found[Len(l.found)] = "None" =>
                /\ wresult = "ElementDeps"
                /\ zhist.error_payload = Some(LastLookedUp)
            /\ l.found[Len(l.found)] = "Err" =>
                /\ wresult = "CascadeError"
                /\ zhist.error_payload = None

\* the base was found and the target was not
C30_Witness ==
    /\ LookupFailed
    /\ Returned
    /\ Last(zhist.lookups).found = <<"Some", "None">>
    /\ wresult = "ElementDeps"
    /\ zhist.error_payload = Some("target_address")
    /\ len(ws) > chain_head_start_len

\* ---- the gatekeep_loop variant (SpecActor)
Outstanding(c) ==
    Cardinality({i \in 1..Len(writes) : writes[i].result_sender = c})
        + (IF loop_req # None /\ loop_req[1].result_sender = c THEN 1 ELSE 0)

\* C13: given the same requests in the same order from the same durable chain,
\* the task-based gatekeeper sends for every request the result the mutex
\* gatekeeper returns, and leaves the same durable chain
C13_VariantsAgree ==
    /\ \A k \in 1..Len(actor_log) :
        /\ actor_log[k].id = mutex_log[k].id
        /\ actor_log[k].result = mutex_log[k].result
    /\ loop_pc = "receive" => actor_db = mutex_db

\* C14: the task handles the requests one at a time in the order they were
\* enqueued: the k-th reply answers the k-th request and is sent once that
\* request's gatekeep has finished, the request in hand is the oldest one not
\* answered, the queue holds the later ones in order, and a caller waits
\* exactly while its one request is queued or in hand
C14_OneAtATimeInOrder ==
    /\ \A k \in 1..Len(actor_log) :
        /\ actor_log[k].id = k
        /\ actor_log[k].gatekeep_ran
        /\ actor_log[k].result \in {"Ok", "HeadMoved"}
    /\ loop_req # None => loop_req[1].id = Len(actor_log) + 1
    /\ (loop_pc = "send") <=> (loop_req # None)
    /\ \A i \in 1..Len(writes) :
        writes[i].id = Len(actor_log) + (IF loop_req # None THEN 1 ELSE 0) + i
    /\ \A c \in Callers :
        /\ Outstanding(c) <= 1
        /\ (reply[c] = "waiting") <=> (Outstanding(c) = 1)

\* C34, the mutex gatekeeper: with fair locks every try_append_chain call
\* eventually returns Ok or HeadMoved
C34_MutexCallsReturn ==
    \A c \in Callers :
        (gpc[c] = "ready") ~> (gpc[c] = "done" /\ gresult[c] \in {"Ok", "HeadMoved"})

\* C34, the mutex gatekeeper: the gatekeeper lock is taken before the storage
\* write lock, and both are released when the call returns
C34_LockOrder ==
    /\ db_write # 0 => inner = db_write
    /\ \A c \in Callers :
        /\ gpc[c] \in {"idle", "ready", "done"} => (inner # c /\ db_write # c)
        /\ gpc[c] \in {"gatekeep", "write", "apply"} => inner = c
        /\ gpc[c] = "apply" <=> db_write = c

\* C34: with a fair queue in the actor variant (as with fair locks in the
\* mutex variant) every try_append_chain call eventually returns Ok or
\* HeadMoved, for any number of concurrent callers.
C34_EveryCallReturns ==
    \A c \in Callers :
        (reply[c] = "waiting") ~> (reply[c] \in {"Ok", "HeadMoved"})

C22_ErrAfterShutdown ==
    (/\ shutdown_by # None
     /\ h_log.after_shutdown
     /\ h_log.op \in {"list_dnas", "check_running"}
     /\ h_log.handle # shutdown_by[1])
        => h_log.result.tag = "Err"

\* ---- authored and integrated stores (SpecAuthored)

\* C23: an agent's authored store holds an entry exactly when that agent
\* committed it itself; an entry received through publish/gossip is in the
\* receiver's integrated store and not in its authored store.
C23_AuthoredOnlyOwnCommits ==
    \A a \in Agents : \A entry \in Entries :
        (store_get_entry(authored[a], EntryHashOf(entry)) # None)
            <=> entry \in committed_by[a]

\* alice committed the entry, bob integrated it and has not committed it
C23_Witness ==
    \E entry \in Entries :
        /\ entry \in committed_by["alice"]
        /\ entry \notin committed_by["bob"]
        /\ store_get_entry(authored["alice"], EntryHashOf(entry)) # None
        /\ store_get_entry(integrated["bob"], EntryHashOf(entry)) # None
        /\ store_get_entry(authored["bob"], EntryHashOf(entry)) = None

\* ---- pending DHT ops (SpecDht)

\* the sequence numbers a get_incomplete_dht_ops result is keyed by
ReturnedIndices(ops) == {ops[k][1] : k \in 1..Len(ops)}

\* C26: get_incomplete_dht_ops returns one (sequence number, ops) pair for
\* exactly the index entries not marked complete, each keyed by its own
\* sequence number; an index whose mark has been committed is never returned,
\* and the committed marks are exactly those of the complete_dht_op calls
\* committed so far (every other entry keeps its pending status).
C26_PendingBookkeeping ==
    /\ complete_db = dht_hist.committed_marks
    /\ dht_hist.called =>
        LET ops == dht_hist.ops
            returned == ReturnedIndices(ops)
        IN  /\ ~dht_hist.panicked
            /\ Cardinality(returned) = Len(ops)
            /\ \A k \in 1..Len(ops) :
                    /\ ops[k][1] \in 0..(dht_hist.len_sc - 1)
                    /\ ops[k][2] = Some(produce_ops_from_element(
                                            get_at_index(dht_sc, ops[k][1])[1]))
            /\ returned \cap dht_hist.complete_db = {}
            /\ {i \in 0..(dht_hist.len_db - 1) :
                    i \notin dht_hist.complete_db \cup dht_hist.complete_scratch}
                        \subseteq returned
            /\ (dht_hist.len_sc = dht_hist.len_db /\ dht_hist.complete_scratch = {})
                    => returned = {i \in 0..(dht_hist.len_db - 1) :
                                        i \notin dht_hist.complete_db}

\* a call on a clean buffer after a committed mark: a marked index is left
\* out, a pending one is returned
C26_Witness ==
    /\ dht_hist.called
    /\ dht_hist.len_sc = dht_hist.len_db
    /\ dht_hist.complete_scratch = {}
    /\ dht_hist.complete_db # {}
    /\ dht_hist.ops # <<>>
    /\ \E i \in dht_hist.complete_db : \E j \in ReturnedIndices(dht_hist.ops) : i < j
    /\ dht_hist.committed_marks = dht_hist.complete_db


\* ---- the workspace of a zome call (SpecWorkspace)

\* C36: a call_zome_workflow invocation, successful or not, leaves the
\* integrated element store and the integrated metadata as they were; a
\* failed one leaves all six databases as they were, a successful one only
\* adds to the source chain, the authored metadata and the two caches
C36_IntegratedNeverWritten ==
    [][(ws_last' \in {"Ok", "Err"}) =>
            /\ ws_env'["element_integrated"] = ws_env["element_integrated"]
            /\ ws_env'["meta_integrated"] = ws_env["meta_integrated"]
            /\ ws_last' = "Err" => ws_env' = ws_env
            /\ \A b \in Buffers : ws_env[b] \subseteq ws_env'[b]]_vars

\* a successful call has written an element that is not integrated, next to
\* an integrated one, and filled the caches
C36_Witness ==
    /\ ws_last = "Ok"
    /\ ws_env["element_integrated"] # {}
    /\ ws_env["meta_integrated"] # {}
    /\ ws_env["source_chain"] \ ws_env["element_integrated"] # {}
    /\ ws_env["meta_authored"] # {}
    /\ ws_env["element_cache"] # {}
    /\ ws_env["meta_cache"] # {}


\* ---- the conductor lock (SpecRwLive)

RwGuards ==
    /\ \A t \in zome_calls(rw_op, rw_pc) : t \in rw_readers /\ rw_writer = 0
    /\ \A t \in Handles : rw_pc[t] = "writing" =>
            /\ rw_writer = t
            /\ rw_readers = {}
            /\ zome_calls(rw_op, rw_pc) = {}
    /\ rw_log.wrote =>
            /\ rw_log.op \in RwOps.write \cup RwOps.both
            /\ ~rw_log.during_zome
    /\ rw_log.op \in RwOps.write => rw_log.wrote

\* C37: call_zome holds the conductor read guard from the cell lookup until it
\* returns; while a zome call is in progress no task holds the write guard and
\* no operation that writes the conductor (shutdown, add_app_interface,
\* activate_app, the store update of install_dna) returns; and a call_zome
\* whose cell call has returned does return and gives the guard up
C37_ZomeCallHoldsReadLock ==
    /\ []RwGuards
    /\ \A t \in Handles :
          (rw_op[t] = "call_zome" /\ rw_pc[t] = "returning")
              ~> (rw_pc[t] = "idle" /\ t \notin rw_readers)

\* two zome calls are in progress at once, a list_dnas returned while the
\* first of them was in progress, and no writer is waiting
C37_Witness ==
    \E t \in Handles : \E u \in Handles :
        /\ t # u
        /\ {t, u} \subseteq zome_calls(rw_op, rw_pc)
        /\ {t, u} \subseteq rw_readers
        /\ rw_log.op = "list_dnas"
        /\ rw_log.during_zome
        /\ \A v \in Handles : rw_pc[v] # "write_wait"


\* ---- backward iteration (SpecIter)

\* C38: an iterator makes at most one header lookup per next() call, yields
\* at most len() items and has returned None by its (len() + 1)-th call; once
\* it has returned None (at the oldest header or at a header the store does
\* not hold) `current` is None and every later next() returns None; it yields
\* the headers from the chain head backwards, and only an iterator fresh from
\* iter_back() stands at the chain head again
C38_IterationEndsAndStays ==
    it_iter.open =>
        /\ it_iter.lookups <= it_iter.calls
        /\ Len(it_iter.items) <= len(it_store)
        /\ it_iter.calls > len(it_store) => it_iter.ended
        /\ it_iter.ended =>
                /\ it_iter.current = None
                /\ it_iter.last = None
                /\ it_iter.items = iter_back(it_store)
        /\ it_iter.items = SubSeq(iter_back(it_store), 1, Len(it_iter.items))
        /\ it_iter.calls = 0 => it_iter.current = chain_head(it_store)
        /\ (it_iter.calls > 0 /\ chain_head(it_store) # None) =>
                it_iter.current # chain_head(it_store)

\* the iterator gave the chain head, stopped at a header the store does not
\* hold with older headers not visited, and was called twice more
C38_Witness ==
    /\ it_iter.open
    /\ it_iter.ended
    /\ Len(it_iter.items) >= 1
    /\ Len(it_iter.items) < len(it_store)
    /\ it_iter.items[Len(it_iter.items)].header.prev_header # None
    /\ it_iter.calls >= Len(it_iter.items) + 3
    /\ it_iter.lookups = Len(it_iter.items) + 1

=============================================================================
